---- MODULE Spec2Model ----
\* Verification model of the Indeed crawl engine (src/src/indeed_scraper.js):
\* the search-task generator, the Cloudflare challenge resolver and the
\* PuppeteerCrawler request handler with its counters.
EXTENDS Integers, Sequences, FiniteSets, TLC

VARIABLES
    \* ---- createIndeedSearchTasks ----
    genJobTypes,      \* params.jobTypes
    genMaxPages,      \* params.maxPages
    genTasks,         \* the returned array
    genPc,            \* "call" | "returned"
    \* ---- handleCloudflareChallenge ----
    pageUrl,          \* page.url() of the live document
    pageTitle,        \* page.title() of the live document
    pageDom,          \* element kinds present in the live document
    cfPc,             \* "enter" | "poll" | "returned"
    initialTitle,     \* line 138
    isCloudflareChallenge,  \* line 158
    hasCloudflareContent,   \* line 164
    attempts,         \* line 182
    lastUrl,          \* line 184
    cfReturn,         \* the value returned ("none" before the return)
    cfState,          \* the ChallengeState the return site stands for
    cfSite,           \* history: the return site
    cfPrevUrl,        \* history: the URL the preceding poll round met
    cfThrew,          \* an exception left the function
    cfEntryMarker,    \* history: a results marker was present on entry
    cfStable,         \* history: URL and title never changed, no marker was ever there
    cfCaptchaSeen,    \* history: some poll round saw a CAPTCHA iframe
    cfErrSeen,        \* history: some page read failed
    \* ---- scrapeIndeedJobs and the PuppeteerCrawler it configures ----
    searchTasks,      \* the searchTasks argument
    maxConcurrency,   \* options.maxConcurrency
    queue,            \* the crawler's request queue
    pc,               \* per worker: where its request handler stands
    cur,              \* per worker: the request it holds
    allJobs,          \* line 460
    processedUrls,    \* line 461
    failedUrls,       \* line 462
    crawlPc,          \* "running" | "returned"
    result,           \* the array scrapeIndeedJobs returns
    navFailures,      \* environment: navigations that failed so far
    handled,          \* history: the requests handled so far, per final status
    located,          \* history: what the cards met by the extraction loops amount to
    \* ---- extractIndeedJobData on one card ----
    exCard,           \* the jobElement
    exPc,             \* "call" | "returned"
    exJobData,        \* the value returned
    exPushed,         \* the handler pushes it to pageJobs (lines 753-766)
    \* ---- one call of performIndeedSearch (lines 20-89) ----
    searchForm,       \* what the call meets on the landing page
    searchArgs,       \* jobType and location
    searchPc,         \* "call" | "returned"
    searchPage,       \* the form's fields and whether it was submitted
    searchReturn,     \* how the call ended: raised, or the value returned
    \* ---- the sessions the crawler runs the handler with (lines 471-478) ----
    sessConcurrency,  \* options.maxConcurrency
    sessPending,      \* the requests not yet taken: the warm-up, and how many tasks
    sessPool,         \* per slot of the pool: the usable session in it, or none
    sessRun,          \* per worker: the request it handles and the slot of its session
    \* ---- the extraction loop of the request handler (lines 748-774) ----
    loopElements,     \* jobElements
    loopI,            \* i, the number of cards the loop is done with
    loopJobs,         \* pageJobs
    loopPc,           \* "loop" | "pushed" | "caught"
    loopTrace,        \* history: per card, whether its extraction threw and the branch taken
    \* ---- the attempts the crawler makes at one search task (lines 480-482, 781-790) ----
    attPc,            \* "queued" | "running" | "handled" | "failed"
    attRetryCount,    \* request.retryCount
    attLate,          \* handler runs still going after their time-out
    attFailedUrls,    \* what the task added to failedUrls
    attLog,           \* history: the places that counted the task failed
    \* ---- one call of makeIndeedScraperRequestWithRetry (part_002 lines 103-127) ----
    reqPc,            \* "loop" | "returned" | "threw"
    reqAttempt,       \* attempt
    reqOutcome,       \* the value returned or the error thrown
    reqMet,           \* history: what each request issued met
    \* ---- the duplicate removal of scrapeJobsWithIndeedScraper (indeed_scraper_api.js lines 364-401) ----
    ddAllJobs,        \* allJobs, as collected
    ddPc,             \* "call" | "returned"
    ddUniqueJobs,     \* uniqueJobs
    ddDuplicateCount  \* duplicateCount

genVars == <<genJobTypes, genMaxPages, genTasks, genPc>>
cfVars == <<pageUrl, pageTitle, pageDom, cfPc, initialTitle, isCloudflareChallenge,
            hasCloudflareContent, attempts, lastUrl, cfReturn, cfState, cfThrew,
            cfEntryMarker, cfStable, cfCaptchaSeen, cfErrSeen, cfSite, cfPrevUrl>>
crawlVars == <<searchTasks, maxConcurrency, queue, pc, cur, allJobs, processedUrls,
               failedUrls, crawlPc, result, navFailures, handled, located>>
exVars == <<exCard, exPc, exJobData, exPushed>>
searchVars == <<searchForm, searchArgs, searchPc, searchPage, searchReturn>>
sessVars == <<sessConcurrency, sessPending, sessPool, sessRun>>
loopVars == <<loopElements, loopI, loopJobs, loopPc, loopTrace>>
attVars == <<attPc, attRetryCount, attLate, attFailedUrls, attLog>>
reqVars == <<reqPc, reqAttempt, reqOutcome, reqMet>>
ddVars == <<ddAllJobs, ddPc, ddUniqueJobs, ddDuplicateCount>>
vars == <<genVars, cfVars, crawlVars, exVars, searchVars, sessVars, loopVars, attVars, reqVars, ddVars>>

\* what the actions of one component leave alone
genOthers == <<cfVars, crawlVars, exVars, searchVars, sessVars, loopVars, attVars, reqVars, ddVars>>
cfOthers == <<genVars, crawlVars, exVars, searchVars, sessVars, loopVars, attVars, reqVars, ddVars>>
crawlOthers == <<genVars, cfVars, exVars, searchVars, sessVars, loopVars, attVars, reqVars, ddVars>>
exOthers == <<genVars, cfVars, crawlVars, searchVars, sessVars, loopVars, attVars, reqVars, ddVars>>
searchOthers == <<genVars, cfVars, crawlVars, exVars, sessVars, loopVars, attVars, reqVars, ddVars>>
sessOthers == <<genVars, cfVars, crawlVars, exVars, searchVars, loopVars, attVars, reqVars, ddVars>>
loopOthers == <<genVars, cfVars, crawlVars, exVars, searchVars, sessVars, attVars, reqVars, ddVars>>
attOthers == <<genVars, cfVars, crawlVars, exVars, searchVars, sessVars, loopVars, reqVars, ddVars>>
reqOthers == <<genVars, cfVars, crawlVars, exVars, searchVars, sessVars, loopVars, attVars, ddVars>>
ddOthers == <<genVars, cfVars, crawlVars, exVars, searchVars, sessVars, loopVars, attVars, reqVars>>

----------------------------------------------------------------------------
\* Strings are sequences of one-character strings, so that toLowerCase and
\* includes are computed and not assumed.

Upper == <<"A","B","C","D","E","F","G","H","I","J","K","L","M",
           "N","O","P","Q","R","S","T","U","V","W","X","Y","Z">>
Lower == <<"a","b","c","d","e","f","g","h","i","j","k","l","m",
           "n","o","p","q","r","s","t","u","v","w","x","y","z">>

toLowerCase(s) ==
    [i \in 1..Len(s) |->
        IF \E k \in 1..26 : Upper[k] = s[i]
        THEN Lower[CHOOSE k \in 1..26 : Upper[k] = s[i]]
        ELSE s[i]]

includes(s, sub) ==
    \E i \in 0..(Len(s) - Len(sub)) : SubSeq(s, i + 1, i + Len(sub)) = sub

----------------------------------------------------------------------------
\* createIndeedSearchTasks (lines 96-129)

MaxTerms == 3
MaxPages == 3

JobTypePool == {"chef", "cook", "host"}
DefaultLocation == "United States"
DefaultSalaryMin == 55000

\* the object pushed at lines 118-124
SearchTask(jobType, page) ==
    [jobType |-> jobType, location |-> DefaultLocation, salaryMin |-> DefaultSalaryMin,
     pageNumber |-> page, isFirstPage |-> (page = 0)]

\* for (let page = 0; page < maxPages; page++) tasks.push(...)   (lines 117-125)
RECURSIVE PageLoop(_, _, _, _)
PageLoop(jobType, page, maxPages, tasks) ==
    IF page < maxPages
    THEN PageLoop(jobType, page + 1, maxPages, Append(tasks, SearchTask(jobType, page)))
    ELSE tasks

\* jobTypes.forEach(jobType => ...)   (lines 115-126)
RECURSIVE ForEachJobType(_, _, _, _)
ForEachJobType(jobTypes, i, maxPages, tasks) ==
    IF i <= Len(jobTypes)
    THEN ForEachJobType(jobTypes, i + 1, maxPages,
                        PageLoop(jobTypes[i], 0, maxPages, tasks))
    ELSE tasks

\* mutant: page-major order (the loops swapped)
RECURSIVE PageMajor(_, _, _, _, _)
PageMajor(jobTypes, i, page, maxPages, tasks) ==
    IF page >= maxPages THEN tasks
    ELSE IF i > Len(jobTypes) THEN PageMajor(jobTypes, 1, page + 1, maxPages, tasks)
    ELSE PageMajor(jobTypes, i + 1, page, maxPages,
                   Append(tasks, SearchTask(jobTypes[i], page)))

createIndeedSearchTasksPageMajor(jobTypes, maxPages) ==
    PageMajor(jobTypes, 1, 0, maxPages, <<>>)

createIndeedSearchTasks(jobTypes, maxPages) ==
    ForEachJobType(jobTypes, 1, maxPages, <<>>)

SeqsUpTo(S, n) == UNION {[1..k -> S] : k \in 0..n}

GenFrozen ==
    /\ genJobTypes = <<>>
    /\ genMaxPages = 0
    /\ genTasks = <<>>
    /\ genPc = "returned"

GenInit ==
    /\ genJobTypes \in SeqsUpTo(JobTypePool, MaxTerms)
    /\ genMaxPages \in 0..MaxPages
    /\ genTasks = <<>>
    /\ genPc = "call"

CreateTasks ==
    /\ genPc = "call"
    /\ genTasks' = createIndeedSearchTasks(genJobTypes, genMaxPages)
    /\ genPc' = "returned"
    /\ UNCHANGED <<genJobTypes, genMaxPages>>
    /\ UNCHANGED genOthers

----------------------------------------------------------------------------
\* handleCloudflareChallenge (lines 136-267)

\* lines 144-156
cloudflareIndicators ==
    << <<"j","u","s","t"," ","a"," ","m","o","m","e","n","t">>,
       <<"c","h","e","c","k","i","n","g"," ","y","o","u","r"," ","b","r","o","w","s","e","r">>,
       <<"p","l","e","a","s","e"," ","w","a","i","t">>,
       <<"d","d","o","s"," ","p","r","o","t","e","c","t","i","o","n">>,
       <<"c","l","o","u","d","f","l","a","r","e">>,
       <<"r","a","y"," ","i","d">>,
       <<"a","t","t","e","n","t","i","o","n"," ","r","e","q","u","i","r","e","d">>,
       <<"v","e","r","i","f","y"," ","y","o","u"," ","a","r","e"," ","h","u","m","a","n">>,
       <<"s","e","c","u","r","i","t","y"," ","c","h","e","c","k">>,
       <<"b","r","o","w","s","e","r"," ","c","h","e","c","k">>,
       <<"c","h","a","l","l","e","n","g","e">> >>

\* the page titles, body texts, URLs and error messages the environment serves
TitleChecking == <<"C","h","e","c","k","i","n","g"," ","Y","o","u","r"," ","B","r","o","w","s","e","r">>
TitleIndeed == <<"J","o","b"," ","S","e","a","r","c","h"," ","|"," ","I","n","d","e","e","d">>
TitleJobs == <<"c","h","e","f"," ","j","o","b","s">>
TitleNotFound == <<"N","o","t"," ","F","o","u","n","d">>
BodyPlain == <<"F","i","n","d"," ","j","o","b","s">>
BodyRay == <<"R","a","y"," ","I","D",":"," ","7">>
UrlTask == <<"/","s","e","a","r","c","h","-","t","a","s","k","-","0">>
UrlJobs == <<"/","j","o","b","s","?","q","=","c","h","e","f">>
UrlChallenge == <<"/","c","d","n","-","c","g","i","/","c","h","a","l","l","e","n","g","e">>
MsgDetached == <<"f","r","a","m","e"," ","w","a","s"," ","d","e","t","a","c","h","e","d">>
MsgDestroyed == <<"c","o","n","t","e","x","t"," ","w","a","s"," ","d","e","s","t","r","o","y","e","d">>
MsgOther == <<"T","a","r","g","e","t"," ","c","l","o","s","e","d">>
NoError == <<>>

Titles == {TitleChecking, TitleIndeed, TitleJobs, TitleNotFound}
Bodies == {BodyPlain, BodyRay}
Urls == {UrlTask, UrlJobs, UrlChallenge}
ErrorMessages == {MsgDetached, MsgDestroyed, MsgOther}
Doms == { {}, {"searchform"}, {"data-jk"}, {"jobsearch-SerpJobCard"}, {"captcha-iframe"} }

\* the selector lists, as the element kinds they match
SelResultsInitial == {"data-jk", "job_seen_beacon", "jobsearch-SerpJobCard"}
SelResultsPoll == {"data-jk", "job_seen_beacon", "jobsearch-SerpJobCard", "searchform"}
SelResultsRecheck == {"data-jk", "job_seen_beacon", "searchform"}
SelCaptcha == {"captcha-iframe"}

\* await page.$(selector).catch(() => null), as a truth value
Query(dom, selector, fails) == IF fails THEN FALSE ELSE (dom \cap selector) # {}

\* mutant: the indicators are matched without lower-casing the text
HasIndicatorCaseSensitive(text) ==
    \E k \in 1..Len(cloudflareIndicators) : includes(text, cloudflareIndicators[k])

\* cloudflareIndicators.some(indicator => text.toLowerCase().includes(indicator))
HasIndicator(text) ==
    \E k \in 1..Len(cloudflareIndicators) :
        includes(toLowerCase(text), cloudflareIndicators[k])

IndicatorIn == [t \in Titles \cup Bodies \cup {<<>>} |-> HasIndicator(t)]

maxAttempts == 12

\* mutant: one round too many
LoopContinuesOffByOne(att) == att <= maxAttempts

\* while (attempts < maxAttempts)
LoopContinues(att) == att < maxAttempts

\* the ChallengeState a return site stands for
StateOf(site) ==
    CASE site \in {"L173", "L262"} -> "NoChallenge"
      [] site \in {"L198", "L206", "L217", "L248"} -> "Resolved"
      [] site \in {"L258", "L265"} -> "TimedOut"
      [] OTHER -> "none"

ReturnAt(site, value) ==
    /\ cfPc' = "returned"
    /\ cfReturn' = value
    /\ cfState' = StateOf(site)
    /\ cfSite' = site
    /\ cfThrew' = FALSE

\* mutant: the outer handler lets the error through
OuterCatchRethrows ==
    /\ cfPc' = "returned"
    /\ cfReturn' = "none"
    /\ cfState' = "none"
    /\ cfSite' = "none"
    /\ cfThrew' = TRUE

\* the outer catch (lines 263-266)
OuterCatch == ReturnAt("L265", FALSE)

IsMarker(dom) == (dom \cap (SelResultsPoll \cup SelResultsRecheck)) # {}

CfFrozen ==
    /\ pageUrl = UrlTask
    /\ pageTitle = TitleNotFound
    /\ pageDom = {}
    /\ cfPc = "returned"
    /\ initialTitle = <<>>
    /\ isCloudflareChallenge = FALSE
    /\ hasCloudflareContent = FALSE
    /\ attempts = 0
    /\ lastUrl = UrlTask
    /\ cfPrevUrl = UrlTask
    /\ cfReturn = "none"
    /\ cfState = "none"
    /\ cfSite = "none"
    /\ cfThrew = FALSE
    /\ cfEntryMarker = FALSE
    /\ cfStable = TRUE
    /\ cfCaptchaSeen = FALSE
    /\ cfErrSeen = FALSE

CfInit ==
    /\ pageUrl \in Urls
    /\ pageTitle \in Titles
    /\ pageDom \in Doms
    /\ cfPc = "enter"
    /\ initialTitle = <<>>
    /\ isCloudflareChallenge = FALSE
    /\ hasCloudflareContent = FALSE
    /\ attempts = 0
    /\ lastUrl = pageUrl
    /\ cfPrevUrl = pageUrl
    /\ cfReturn = "none"
    /\ cfState = "none"
    /\ cfSite = "none"
    /\ cfThrew = FALSE
    /\ cfEntryMarker = Query(pageDom, SelResultsInitial, FALSE)
    /\ cfStable = ~IsMarker(pageDom)
    /\ cfCaptchaSeen = FALSE
    /\ cfErrSeen = FALSE

\* lines 137-177 and 261-262: the detection
CfDetect ==
    /\ cfPc = "enter"
    /\ \E titleFails, urlFails, bodyFails, selFails \in BOOLEAN, body \in Bodies :
         LET title == IF titleFails THEN <<>> ELSE pageTitle
             bodyText == IF bodyFails THEN <<>> ELSE body
             isCC == IndicatorIn[title]
             hasCC == IndicatorIn[bodyText]
         IN  /\ initialTitle' = title
             /\ cfErrSeen' = (\/ titleFails \/ urlFails \/ bodyFails
                              \/ selFails /\ ~urlFails /\ ~isCC /\ ~hasCC)
             /\ IF urlFails
                THEN /\ OuterCatch
                     /\ UNCHANGED <<isCloudflareChallenge, hasCloudflareContent>>
                ELSE /\ isCloudflareChallenge' = isCC
                     /\ hasCloudflareContent' = hasCC
                     /\ IF ~isCC /\ ~hasCC
                        THEN IF Query(pageDom, SelResultsInitial, selFails)
                             THEN ReturnAt("L173", TRUE)
                             ELSE ReturnAt("L262", TRUE)
                        ELSE /\ cfPc' = "poll"
                             /\ UNCHANGED <<cfReturn, cfState, cfThrew, cfSite>>
    /\ attempts' = 0
    /\ lastUrl' = pageUrl
    /\ cfPrevUrl' = pageUrl
    /\ UNCHANGED <<pageUrl, pageTitle, pageDom, cfEntryMarker, cfStable, cfCaptchaSeen>>
    /\ UNCHANGED cfOthers

\* the document changes while the resolver sleeps (lines 187, 225, 238): its URL,
\* its title or its elements, one at a time
PageNavigates ==
    /\ cfPc = "poll"
    /\ \/ pageUrl' \in Urls \ {pageUrl} /\ UNCHANGED <<pageTitle, pageDom>>
       \/ pageTitle' \in Titles \ {pageTitle} /\ UNCHANGED <<pageUrl, pageDom>>
       \/ pageDom' \in Doms \ {pageDom} /\ UNCHANGED <<pageUrl, pageTitle>>
    /\ cfStable' = (cfStable /\ pageUrl' = pageUrl /\ pageTitle' = pageTitle
                             /\ ~IsMarker(pageDom'))
    /\ UNCHANGED <<cfPc, initialTitle, isCloudflareChallenge, hasCloudflareContent,
                   attempts, lastUrl, cfReturn, cfState, cfThrew, cfEntryMarker,
                   cfCaptchaSeen, cfErrSeen, cfSite, cfPrevUrl>>
    /\ UNCHANGED cfOthers

\* the loop goes round again, or ends at lines 257-258
NextRound(att) ==
    IF LoopContinues(att)
    THEN /\ cfPc' = "poll"
         /\ UNCHANGED <<cfReturn, cfState, cfThrew, cfSite>>
    ELSE ReturnAt("L258", FALSE)

\* lines 210-214
TitleResolved(currentTitle) ==
    /\ ~HasIndicator(currentTitle)
    /\ (includes(currentTitle, <<"I","n","d","e","e","d">>)
        \/ includes(currentTitle, <<"j","o","b","s">>))

\* line 236
IsTransition(message) ==
    \/ includes(message, <<"d","e","t","a","c","h","e","d">>)
    \/ includes(message, <<"d","e","s","t","r","o","y","e","d">>)

\* line 195, second conjunct
LooksLikeChallengeUrl(url) == includes(url, <<"c","h","a","l","l","e","n","g","e">>)

\* the string tests above, tabulated over the values the environment serves
TitleResolvedIn == [t \in Titles |-> TitleResolved(t)]
IsTransitionIn == [m \in ErrorMessages |-> IsTransition(m)]
ChallengeUrlIn == [u \in Urls |-> LooksLikeChallengeUrl(u)]

\* a page-access error ends the resolver
RoundCatchAborts(error, selFails, recheckFails) == ReturnAt("L258", FALSE)

\* lines 232-254: the catch of a poll round
RoundCatch(error, selFails, recheckFails) ==
    IF IsTransitionIn[error] /\ ~recheckFails
       /\ (Query(pageDom, SelResultsRecheck, selFails) \/ ~IndicatorIn[pageTitle])
    THEN ReturnAt("L248", TRUE)
    ELSE NextRound(attempts')

\* lines 189-254: the body of a poll round in which the page reads end with
\* `error`, the selector queries fail or not, the re-check of line 242 fails or not
PollRound(error, selFails, recheckFails) ==
    /\ cfErrSeen' = (\/ cfErrSeen
                     \/ error # NoError
                     \/ selFails /\ (pageUrl = lastUrl \/ ChallengeUrlIn[pageUrl]))
    /\ IF error = NoError
       THEN \* lines 191-230
            IF pageUrl # lastUrl /\ ~ChallengeUrlIn[pageUrl]
            THEN ReturnAt("L198", TRUE) /\ UNCHANGED <<lastUrl, cfCaptchaSeen>>
            ELSE IF Query(pageDom, SelResultsPoll, selFails)
            THEN ReturnAt("L206", TRUE) /\ UNCHANGED <<lastUrl, cfCaptchaSeen>>
            ELSE IF TitleResolvedIn[pageTitle]
            THEN ReturnAt("L217", TRUE) /\ UNCHANGED <<lastUrl, cfCaptchaSeen>>
            ELSE IF Query(pageDom, SelCaptcha, selFails)
            THEN /\ cfCaptchaSeen' = TRUE
                 /\ NextRound(attempts')
                 /\ UNCHANGED lastUrl
            ELSE /\ lastUrl' = pageUrl
                 /\ NextRound(attempts')
                 /\ UNCHANGED cfCaptchaSeen
       ELSE /\ UNCHANGED <<lastUrl, cfCaptchaSeen>>
            /\ RoundCatch(error, selFails, recheckFails)

\* lines 186-255: one pass of the poll loop
CfPollRound ==
    /\ cfPc = "poll"
    /\ LoopContinues(attempts)
    /\ attempts' = attempts + 1
    /\ cfPrevUrl' = pageUrl
    /\ \E error \in ErrorMessages \cup {NoError}, selFails, recheckFails \in BOOLEAN :
         PollRound(error, selFails, recheckFails)
    /\ UNCHANGED <<pageUrl, pageTitle, pageDom, initialTitle, isCloudflareChallenge,
                   hasCloudflareContent, cfEntryMarker, cfStable>>
    /\ UNCHANGED cfOthers

----------------------------------------------------------------------------
\* scrapeIndeedJobs (lines 450-815): the request handler, the failed-request
\* handler and the crawler's queue, retries and worker pool.

MaxTasks == 2
MaxWorkers == 2
MaxNavFailures == 3

maxRequestRetries == 2
requestHandlerRetryLimit == 2

Workers == 1..MaxWorkers

\* a request: url and userData as at lines 795-804, retryCount kept by the
\* crawler; count is the results-count element the handler read at line 638,
\* nextButton the place in the selector list of the control found at lines
\* 658-661 (0 for none)
Request(id, userData) ==
    [id |-> id, userData |-> userData, retryCount |-> 0, count |-> [present |-> FALSE],
     nextButton |-> 0]

WarmupRequest == Request(0, [isWarmup |-> TRUE])
NoRequest == Request(-1, [isWarmup |-> FALSE])

\* task?.isWarmup (line 526)
IsWarmup(request) ==
    "isWarmup" \in DOMAIN request.userData /\ request.userData.isWarmup

\* lines 795-804: the warm-up request first, then one request per task
InitialQueue(tasks) ==
    <<WarmupRequest>> \o [i \in 1..Len(tasks) |-> Request(i, tasks[i])]

\* ---- the environment: search form, result count, next-page control, cards ----

\* what performIndeedSearch meets on the landing page
Forms ==
    { [gotoThrows |-> g, whatInput |-> a, whereInput |-> b, searchButton |-> c,
       navigationThrows |-> n] :
        g \in {FALSE}, a \in BOOLEAN, b \in {TRUE}, c \in BOOLEAN, n \in BOOLEAN }
    \cup { [gotoThrows |-> TRUE, whatInput |-> TRUE, whereInput |-> TRUE,
            searchButton |-> TRUE, navigationThrows |-> FALSE],
           [gotoThrows |-> FALSE, whatInput |-> TRUE, whereInput |-> FALSE,
            searchButton |-> TRUE, navigationThrows |-> FALSE] }

\* the landing page before the call: empty fields, nothing submitted
LandingPage == [what |-> "", where |-> "", submitted |-> FALSE]

Threw(page) == [threw |-> TRUE, page |-> page]
Returns(value, page) == [threw |-> FALSE, value |-> value, page |-> page]

\* the search button's absence is only logged
SearchBodyButtonOptional(form, jobType, location) ==
    IF form.gotoThrows THEN Threw(LandingPage)
    ELSE IF ~form.whatInput \/ ~form.whereInput THEN Returns(FALSE, LandingPage)
    ELSE LET typed == [LandingPage EXCEPT !.what = jobType, !.where = location]
             clicked == [typed EXCEPT !.submitted = form.searchButton]
         IN  IF form.navigationThrows THEN Threw(clicked)
             ELSE Returns(TRUE, clicked)

\* the body of the try block (lines 22-83)
SearchBody(form, jobType, location) ==
    IF form.gotoThrows THEN Threw(LandingPage)
    ELSE IF ~form.whatInput \/ ~form.whereInput THEN Returns(FALSE, LandingPage)
    ELSE LET typed == [LandingPage EXCEPT !.what = jobType, !.where = location]
             clicked == [typed EXCEPT !.submitted = TRUE]
         IN  IF ~form.searchButton THEN Returns(FALSE, typed)
             ELSE IF form.navigationThrows THEN Threw(clicked)
             ELSE Returns(TRUE, clicked)

\* performIndeedSearch (lines 20-89): the body, and the catch of lines 85-88
\* that turns an exception into false
performIndeedSearch(form, jobType, location) ==
    LET body == SearchBody(form, jobType, location)
    IN  IF body.threw THEN Returns(FALSE, body.page) ELSE body

\* the results-count element of line 640: its text, and the total that text
\* declares to a reader
CountIndicator(text, total) == [present |-> TRUE, text |-> text, total |-> total]
NoCountIndicator == [present |-> FALSE]

CountIndicators ==
    { NoCountIndicator,
      CountIndicator(<<"1","5"," ","j","o","b","s">>, 15),
      CountIndicator(<<"2","5"," ","j","o","b","s">>, 25),
      CountIndicator(<<"2","0","0","+"," ","j","o","b","s">>, 200),
      CountIndicator(<<"1",",","2","3","4"," ","j","o","b","s">>, 1234),
      CountIndicator(<<"j","o","b","s">>, 0) }

Digits == <<"0","1","2","3","4","5","6","7","8","9">>
IsDigit(c) == \E d \in 1..10 : Digits[d] = c
DigitValue(c) == (CHOOSE d \in 1..10 : Digits[d] = c) - 1

\* parseInt of a run of digits
RECURSIVE parseInt(_, _, _)
parseInt(text, i, value) ==
    IF i <= Len(text) /\ IsDigit(text[i])
    THEN parseInt(text, i + 1, value * 10 + DigitValue(text[i]))
    ELSE value

\* text.match(/(\d+)/): the position of the first digit, 0 when there is none
FirstDigit(text) ==
    IF \E i \in 1..Len(text) : IsDigit(text[i])
    THEN CHOOSE i \in 1..Len(text) :
            IsDigit(text[i]) /\ \A j \in 1..(i - 1) : ~IsDigit(text[j])
    ELSE 0

\* the value of totalResults (lines 638-647)
TotalResults(count) ==
    IF count.present
    THEN IF FirstDigit(count.text) # 0
         THEN parseInt(count.text, FirstDigit(count.text), 0)
         ELSE 0
    ELSE 0

\* the count guard with the threshold one page short
BelowExpectedOnePageShort(totalResults, pageNumber) == totalResults < pageNumber * 10

\* lines 649-651: totalResults < expectedMinResults
BelowExpected(totalResults, pageNumber) == totalResults < (pageNumber + 1) * 10

\* the next-page selectors of lines 658-661, in order
NextSelectors ==
    << "a[aria-label=Next Page]", "a[aria-label=Next]", ".np:last-child a",
       "nav[role=navigation] a:last-child" >>

NextControls == { {}, {"a[aria-label=Next]"}, {".np:last-child a", "nav[role=navigation] a:last-child"} }

\* the last selector that matches
LastNextSelector(present) ==
    IF \E k \in 1..Len(NextSelectors) : NextSelectors[k] \in present
    THEN CHOOSE k \in 1..Len(NextSelectors) :
            /\ NextSelectors[k] \in present
            /\ \A j \in (k + 1)..Len(NextSelectors) : NextSelectors[j] \notin present
    ELSE 0

\* lines 658-661: the first selector that matches, 0 when none does
FirstNextSelector(present) ==
    IF \E k \in 1..Len(NextSelectors) : NextSelectors[k] \in present
    THEN CHOOSE k \in 1..Len(NextSelectors) :
            /\ NextSelectors[k] \in present
            /\ \A j \in 1..(k - 1) : NextSelectors[j] \notin present
    ELSE 0

\* ---- job cards and extractIndeedJobData (lines 275-397) ----

\* the fallback lists of lines 290-334
titleSelectors ==
    << "h2 a span[title]", "[data-testid=job-title] a span", ".jobTitle a span",
       "h2 span[title]", ".jobTitle span", "a[data-jk] span[title]",
       ".jobTitle-color-purple span" >>
companySelectors ==
    << "[data-testid=company-name]", ".companyName", "span[data-testid=company-name]",
       ".company", "a[data-testid=company-name]", ".companyName a" >>
locationSelectors ==
    << "[data-testid=job-location]", ".companyLocation",
       "div[data-testid=job-location]", ".location", ".locationsContainer" >>
salarySelectors ==
    << ".salary-snippet", "[data-testid=attribute_snippet_testid]",
       ".estimated-salary", ".salaryText", ".salary" >>
descriptionSelectors ==
    << ".job-snippet", "[data-testid=job-snippet]", ".summary",
       ".jobCardShelfContainer .summary" >>

\* texts, as sequences of characters
TextChef == <<"C","h","e","f">>
TextAcme == <<"A","c","m","e">>
TextAcmePadded == <<" ","A","c","m","e"," ">>
TextBlank == <<" "," ">>
TextMcD == <<"M","c","D">>
TextPay == <<"$","5","5","k">>
TextAustin == <<"A","u","s","t","i","n">>
TextSalary == <<"$","6","0","k">>
TextSnippet == <<"G","r","i","l","l">>
NoTitleFound == <<"N","o"," ","t","i","t","l","e"," ","f","o","u","n","d">>
NoCompanyFound == <<"N","o"," ","c","o","m","p","a","n","y"," ","f","o","u","n","d">>
NoLocationFound == <<"N","o"," ","l","o","c","a","t","i","o","n"," ","f","o","u","n","d">>

Whitespace == {" "}

\* String.prototype.trim
RECURSIVE trimStart(_)
trimStart(s) ==
    IF s # <<>> /\ Head(s) \in Whitespace THEN trimStart(Tail(s)) ELSE s

RECURSIVE trimEnd(_)
trimEnd(s) ==
    IF s # <<>> /\ s[Len(s)] \in Whitespace THEN trimEnd(SubSeq(s, 1, Len(s) - 1)) ELSE s

trim(s) == trimEnd(trimStart(s))

\* a card element: the nodes its selectors find, each with its textContent, and
\* whether the element is detached (every evaluation on it fails)
Node(selector, textContent) == [selector |-> selector, textContent |-> textContent]

Element(nodes, detached) == [nodes |-> nodes, detached |-> detached]

\* Element.querySelector parses its selector first: every selector accepted
SelectorIsValidAlways(selector) == TRUE

\* Element.querySelector parses its selector first: an empty selector is a
\* SyntaxError (the selector '' is passed at line 364)
SelectorIsValid(selector) == selector # ""

\* getText (lines 279-282)
getText(selector, element) ==
    IF \E n \in element.nodes : n.selector = selector
    THEN trim((CHOOSE n \in element.nodes : n.selector = selector).textContent)
    ELSE <<>>

\* the loops of lines 339-362: the text of the first selector that gives one
RECURSIVE FirstText(_, _, _)
FirstText(selectors, i, element) ==
    IF i > Len(selectors) THEN <<>>
    ELSE IF getText(selectors[i], element) # <<>> THEN getText(selectors[i], element)
    ELSE FirstText(selectors, i + 1, element)

\* the field was resolved by some selector of its list
Resolved(selectors, element) == FirstText(selectors, 1, element) # <<>>

NullJob == [isNull |-> TRUE]

Or(text, placeholder) == IF text # <<>> THEN text ELSE placeholder

\* the callback of page.evaluate (lines 277-390); getAttr('', 'data-jk') of
\* line 364 calls querySelector('')
EvaluateCard(element) ==
    IF element.detached \/ ~SelectorIsValid("")
    THEN [threw |-> TRUE]
    ELSE [threw |-> FALSE,
          jobData |->
            [isNull |-> FALSE,
             title |-> Or(FirstText(titleSelectors, 1, element), NoTitleFound),
             company |-> Or(FirstText(companySelectors, 1, element), NoCompanyFound),
             location |-> Or(FirstText(locationSelectors, 1, element), NoLocationFound),
             salary |-> FirstText(salarySelectors, 1, element),
             description |-> FirstText(descriptionSelectors, 1, element),
             source |-> "Indeed Direct"]]

\* extractIndeedJobData (lines 275-397): null when the evaluation throws
extractIndeedJobData(card) ==
    IF EvaluateCard(card).threw THEN NullJob ELSE EvaluateCard(card).jobData

\* a card with its title, company and salary under one selector each ("" for
\* a field that no selector finds)
Card(title, company, salary, throws) ==
    Element(
        {Node(titleSelectors[5], title) : t \in {title} \ {<<>>}}
            \cup {Node(companySelectors[1], company) : c \in {company} \ {<<>>}}
            \cup {Node(salarySelectors[1], salary) : s \in {salary} \ {<<>>}}
            \cup {Node(locationSelectors[2], TextAustin)},
        throws)

CardOk == Card(TextChef, TextAcme, TextSalary, FALSE)
CardNoSalary == Card(TextChef, TextAcmePadded, <<>>, FALSE)
CardNoTitle == Card(<<>>, TextAcme, <<>>, FALSE)
CardNoCompany == Card(TextChef, TextBlank, <<>>, FALSE)
CardExcluded == Card(TextChef, TextMcD, <<>>, FALSE)
CardSalaryName == Card(TextChef, TextPay, <<>>, FALSE)
CardThrows == Card(TextChef, TextAcme, <<>>, TRUE)

PageOfTen == [i \in 1..10 |-> CardOk]
PageMixed == <<CardNoTitle, CardOk, CardThrows, CardExcluded, CardNoCompany,
               CardSalaryName, CardNoSalary>>
PageEmpty == <<>>
Pages == {PageOfTen, PageMixed, PageEmpty}

\* shouldExcludeCompany(company).isExcluded and isSalaryCompanyName(company) of
\* bing_search_api.js (imported at line 10)
shouldExcludeCompany(company) == company \in {TextMcD}
isSalaryCompanyName(company) == company \in {TextPay}

\* the tests at lines 753-766 without the tests of jobData, title and company
AcceptedUnchecked(jobData) ==
    jobData.isNull \/ (~shouldExcludeCompany(jobData.company)
                       /\ ~isSalaryCompanyName(jobData.company))

\* lines 753-766: the tests a card passes before pageJobs.push(jobData)
Accepted(jobData) ==
    /\ ~jobData.isNull
    /\ jobData.title # NoTitleFound
    /\ jobData.company # NoCompanyFound
    /\ ~shouldExcludeCompany(jobData.company)
    /\ ~isSalaryCompanyName(jobData.company)

\* lines 748-771: the loop over jobElements
RECURSIVE ExtractLoop(_, _, _)
ExtractLoop(jobElements, i, pageJobs) ==
    IF i > Len(jobElements) THEN pageJobs
    ELSE LET jobData == extractIndeedJobData(jobElements[i])
         IN  ExtractLoop(jobElements, i + 1,
                         IF Accepted(jobData) THEN Append(pageJobs, jobData) ELSE pageJobs)

\* a card that offers a record: attached, title and company resolved, and the
\* company passing both filters
Offers(card) ==
    /\ ~card.detached
    /\ Resolved(titleSelectors, card)
    /\ Resolved(companySelectors, card)
    /\ ~shouldExcludeCompany(FirstText(companySelectors, 1, card))
    /\ ~isSalaryCompanyName(FirstText(companySelectors, 1, card))

\* an attached card whose title or company no selector resolves
Unresolved(card) ==
    /\ ~card.detached
    /\ ~(Resolved(titleSelectors, card) /\ Resolved(companySelectors, card))

\* what the cards of a page amount to: records accepted by the loop, cards that
\* offer a record, cards with an unresolved title or company
PageSummary ==
    [p \in Pages |->
        [pageJobs |-> ExtractLoop(p, 1, <<>>),
         offered |-> Cardinality({i \in 1..Len(p) : Offers(p[i])}),
         unresolved |-> Cardinality({i \in 1..Len(p) : Unresolved(p[i])})]]

\* ---- final status of a request, by the place where its handling ended ----
StatusOf(site) ==
    CASE site = "L538" -> "Warmup"
      [] site = "L631" -> "Skipped"
      [] site \in {"L653", "L669"} -> "NoMorePages"
      [] site = "L779" -> "Done"
      [] site \in {"L674", "L695", "L699", "L742", "L783", "L789"} -> "Failed"
      [] OTHER -> "Pending"

Statuses == {"Warmup", "Skipped", "NoMorePages", "Done", "Failed"}

\* ---- steps ----

\* the handler of `request` ends at `site`, having counted `failed` failures;
\* the crawler marks the request handled and the worker is free again
HandlerReturnsWith(w, request, site, failed) ==
    /\ pc' = [pc EXCEPT ![w] = "idle"]
    /\ cur' = [cur EXCEPT ![w] = NoRequest]
    /\ failedUrls' = failedUrls + failed
    /\ handled' = [handled EXCEPT ![StatusOf(site)] = @ + 1]

HandlerReturns(w, site, failed) == HandlerReturnsWith(w, cur[w], site, failed)

\* the crawler's handling of an error that reaches it: the request is dropped
\* from the queue unhandled
CrawlerDropsRequest(w, request) ==
    /\ queue' = Tail(queue)
    /\ UNCHANGED <<cur, pc, failedUrls, handled>>

\* the crawler's handling of an error that reaches it: reclaim the request for
\* another try while retryCount < maxRequestRetries (line 481), else call
\* failedRequestHandler (lines 787-790)
CrawlerHandlesError(w, request) ==
    IF request.retryCount < maxRequestRetries
    THEN /\ queue' = Append(Tail(queue), [request EXCEPT !.retryCount = @ + 1])
         /\ UNCHANGED <<cur, pc, failedUrls, handled>>
    ELSE /\ HandlerReturnsWith(w, request, "L789", 1)
         /\ queue' = Tail(queue)

\* the catch of lines 781-784
HandlerCatch(w, site) ==
    /\ HandlerReturns(w, site, 1)
    /\ UNCHANGED queue

\* the next request of the queue goes to a free slot of the pool: the free
\* slot of lowest number
CanFetch(w) ==
    /\ crawlPc = "running"
    /\ w <= maxConcurrency
    /\ pc[w] = "idle"
    /\ \A v \in 1..(w - 1) : pc[v] # "idle"
    /\ queue # <<>>

\* a worker takes the next request and the crawler's own page.goto(request.url)
\* fails before the handler is called
NavigationFails(w) ==
    /\ CanFetch(w)
    /\ navFailures < MaxNavFailures
    /\ navFailures' = navFailures + 1
    /\ CrawlerHandlesError(w, Head(queue))
    /\ UNCHANGED <<searchTasks, maxConcurrency, located, allJobs, processedUrls,
                   crawlPc, result>>
    /\ UNCHANGED crawlOthers

\* a worker takes the next request, the page is opened and the handler is
\* entered (lines 521-526)
HandlerStart(w) ==
    /\ CanFetch(w)
    /\ queue' = Tail(queue)
    /\ processedUrls' = processedUrls + 1
    /\ cur' = [cur EXCEPT ![w] = Head(queue)]
    /\ pc' = [pc EXCEPT ![w] = IF IsWarmup(Head(queue)) THEN "warmup" ELSE "interact"]
    /\ UNCHANGED <<searchTasks, maxConcurrency, located, allJobs, failedUrls,
                   crawlPc, result, navFailures, handled>>
    /\ UNCHANGED crawlOthers

\* lines 526-539: the warm-up visit; a failing goto is caught at line 535
Warmup(w) ==
    /\ pc[w] = "warmup"
    /\ \E gotoThrows \in BOOLEAN : HandlerReturns(w, "L538", 0)
    /\ UNCHANGED <<searchTasks, maxConcurrency, located, queue, allJobs, processedUrls,
                   crawlPc, result, navFailures>>
    /\ UNCHANGED crawlOthers

\* the handler goes straight on to the extraction
ToExtraction(w) ==
    /\ pc' = [pc EXCEPT ![w] = "extract"]
    /\ UNCHANGED <<cur, failedUrls, queue, handled>>

\* the handler goes on to the challenge check
ToChallenge(w) ==
    /\ pc' = [pc EXCEPT ![w] = "challenge"]
    /\ UNCHANGED <<cur, failedUrls, queue, handled>>

\* a page without a next-page control counts as a failure
NextPageCountsFailure(w, present) ==
    IF FirstNextSelector(present) = 0
    THEN HandlerReturns(w, "L669", 1) /\ UNCHANGED queue
    ELSE \E clickThrows \in BOOLEAN :
            IF clickThrows
            THEN HandlerReturns(w, "L674", 1) /\ UNCHANGED queue
            ELSE /\ cur' = [cur EXCEPT ![w].count = NoCountIndicator,
                                       ![w].nextButton = FirstNextSelector(present)]
                 /\ pc' = [pc EXCEPT ![w] = "challenge"]
                 /\ UNCHANGED <<failedUrls, queue, handled>>

\* lines 656-675: the next-page control is looked up and clicked
NextPage(w, present) ==
    IF FirstNextSelector(present) = 0
    THEN HandlerReturns(w, "L669", 0) /\ UNCHANGED queue
    ELSE \E clickThrows \in BOOLEAN :
            IF clickThrows
            THEN HandlerReturns(w, "L674", 1) /\ UNCHANGED queue
            ELSE \* the control is clicked; totalResults is not read again
                 /\ cur' = [cur EXCEPT ![w].count = NoCountIndicator,
                                       ![w].nextButton = FirstNextSelector(present)]
                 /\ pc' = [pc EXCEPT ![w] = "challenge"]
                 /\ UNCHANGED <<failedUrls, queue, handled>>

\* lines 649-676 on a page whose next-page controls are `present`
PaginateOn(w, present) ==
    IF BelowExpected(TotalResults(cur[w].count), cur[w].userData.pageNumber)
    THEN HandlerReturns(w, "L653", 0) /\ UNCHANGED queue
    ELSE NextPage(w, present)

\* lines 649-676: the count guard and the next-page control
Paginate(w) ==
    /\ pc[w] = "paginate"
    /\ \E present \in NextControls : PaginateOn(w, present)
    /\ UNCHANGED <<searchTasks, maxConcurrency, located, allJobs, processedUrls,
                   crawlPc, result, navFailures>>
    /\ UNCHANGED crawlOthers

\* lines 625-632: the search of a first-page task on a given landing page
FirstPageSearch(w, form) ==
    IF ~performIndeedSearch(form, cur[w].userData.jobType,
                            cur[w].userData.location).value
    THEN HandlerReturns(w, "L631", 1) /\ UNCHANGED queue
    ELSE ToChallenge(w)

\* lines 541-647: stealth set-up, then the initial search or the reading of
\* the results count
Interact(w) ==
    /\ pc[w] = "interact"
    /\ \E setupThrows \in BOOLEAN :
         IF setupThrows
         THEN HandlerCatch(w, "L783")
         ELSE IF cur[w].userData.isFirstPage
         THEN \E form \in Forms : FirstPageSearch(w, form)
         ELSE \E evaluateThrows \in BOOLEAN :
                IF evaluateThrows
                THEN HandlerCatch(w, "L783")
                ELSE \E count \in CountIndicators :
                        /\ cur' = [cur EXCEPT ![w].count = count]
                        /\ pc' = [pc EXCEPT ![w] = "paginate"]
                        /\ UNCHANGED <<failedUrls, queue, handled>>
    /\ UNCHANGED <<searchTasks, maxConcurrency, located, allJobs, processedUrls,
                   crawlPc, result, navFailures>>
    /\ UNCHANGED crawlOthers

\* lines 679-701: what handleCloudflareChallenge's value leads to
AfterChallenge(w, cloudflareSuccess) ==
    IF cloudflareSuccess
    THEN \* nextButton is not used again
         /\ pc' = [pc EXCEPT ![w] = "extract"]
         /\ cur' = [cur EXCEPT ![w].nextButton = 0]
         /\ UNCHANGED <<failedUrls, queue, handled>>
    ELSE IF cur[w].retryCount < requestHandlerRetryLimit
    THEN \* page.close() (a failure of it is caught at line 690), then the
         \* throw of line 695, which arrives in the catch of lines 781-784
         \E closeThrows \in BOOLEAN : HandlerCatch(w, "L695")
    ELSE HandlerReturns(w, "L699", 1) /\ UNCHANGED queue

\* lines 678-701: the challenge check and what follows a failed one
ChallengeCheck(w) ==
    /\ pc[w] = "challenge"
    /\ \E cloudflareSuccess \in BOOLEAN : AfterChallenge(w, cloudflareSuccess)
    /\ UNCHANGED <<searchTasks, maxConcurrency, located, allJobs, processedUrls,
                   crawlPc, result, navFailures>>
    /\ UNCHANGED crawlOthers

\* what would follow if no card were an error left to the crawler, which
\* retries the request (line 481) or calls failedRequestHandler
NoJobCardsThrows(w, titleThrows) ==
    IF cur[w].retryCount < maxRequestRetries
    THEN /\ queue' = Append(queue, [cur[w] EXCEPT !.retryCount = @ + 1,
                                                 !.count = NoCountIndicator])
         /\ pc' = [pc EXCEPT ![w] = "idle"]
         /\ cur' = [cur EXCEPT ![w] = NoRequest]
         /\ UNCHANGED <<failedUrls, handled>>
    ELSE HandlerReturns(w, "L789", 1) /\ UNCHANGED queue

\* lines 733-743: no selector of jobSelectors found a card; the page's title
\* and URL are logged (a throw of page.title() lands in the catch of line 781),
\* failedUrls++ and return
NoJobCards(w, titleThrows) ==
    IF titleThrows
    THEN HandlerCatch(w, "L783")
    ELSE HandlerReturns(w, "L742", 1) /\ UNCHANGED queue

\* the handler returns right after the push
AfterExtractionReturns(w) == HandlerReturns(w, "L779", 0) /\ UNCHANGED queue

\* lines 776-778: after the push the handler starts the pacing delay
AfterExtraction(w) ==
    /\ pc' = [pc EXCEPT ![w] = "pacing"]
    /\ UNCHANGED <<cur, failedUrls, queue, handled>>

\* lines 703-774: the cards are located, extracted and appended
Extract(w) ==
    /\ pc[w] = "extract"
    /\ \E jobElements \in Pages :
         IF Len(jobElements) = 0
         THEN /\ \E titleThrows \in BOOLEAN : NoJobCards(w, titleThrows)
              /\ located' = [located EXCEPT !.noCards = TRUE]
              /\ UNCHANGED allJobs
         ELSE LET pageJobs == PageSummary[jobElements].pageJobs
              IN  /\ allJobs' = allJobs \o pageJobs
                  /\ located' = [offered |-> located.offered + PageSummary[jobElements].offered,
                                 unresolved |-> located.unresolved
                                                  + PageSummary[jobElements].unresolved,
                                 noCards |-> located.noCards]
                  /\ AfterExtraction(w)
    /\ UNCHANGED <<searchTasks, maxConcurrency, processedUrls, crawlPc, result,
                   navFailures>>
    /\ UNCHANGED crawlOthers

\* lines 776-779: the pacing delay, then the handler ends
Pacing(w) ==
    /\ pc[w] = "pacing"
    /\ HandlerReturns(w, "L779", 0)
    /\ UNCHANGED <<searchTasks, maxConcurrency, located, queue, allJobs, processedUrls,
                   crawlPc, result, navFailures>>
    /\ UNCHANGED crawlOthers

\* lines 807-814: crawler.run() resolves and allJobs is returned
RunReturns ==
    /\ crawlPc = "running"
    /\ queue = <<>>
    /\ \A w \in Workers : pc[w] = "idle"
    /\ crawlPc' = "returned"
    /\ result' = allJobs
    /\ UNCHANGED <<searchTasks, maxConcurrency, located, queue, pc, cur, allJobs, processedUrls,
                   failedUrls, navFailures, handled>>
    /\ UNCHANGED crawlOthers

CrawlStart(tasks, concurrency) ==
    /\ searchTasks = tasks
    /\ maxConcurrency = concurrency
    /\ queue = InitialQueue(tasks)
    /\ pc = [w \in Workers |-> "idle"]
    /\ cur = [w \in Workers |-> NoRequest]
    /\ allJobs = <<>>
    /\ processedUrls = 0
    /\ failedUrls = 0
    /\ crawlPc = "running"
    /\ result = <<>>
    /\ navFailures = 0
    /\ handled = [s \in Statuses |-> 0]
    /\ located = [offered |-> 0, unresolved |-> 0, noCards |-> FALSE]

CrawlFrozen ==
    /\ searchTasks = <<>>
    /\ maxConcurrency = 0
    /\ queue = <<>>
    /\ pc = [w \in Workers |-> "idle"]
    /\ cur = [w \in Workers |-> NoRequest]
    /\ allJobs = <<>>
    /\ processedUrls = 0
    /\ failedUrls = 0
    /\ crawlPc = "returned"
    /\ result = <<>>
    /\ navFailures = 0
    /\ handled = [s \in Statuses |-> 0]
    /\ located = [offered |-> 0, unresolved |-> 0, noCards |-> FALSE]

CrawlJobTypes == <<"chef", "cook", "host">>

\* any run over up to MaxTasks tasks with up to MaxWorkers workers
CrawlInit ==
    \E n \in 1..MaxTasks, pages \in 1..MaxTasks, concurrency \in 1..MaxWorkers :
        /\ n * pages <= MaxTasks
        /\ CrawlStart(createIndeedSearchTasks(SubSeq(CrawlJobTypes, 1, n), pages),
                      concurrency)

\* the run of 2 search terms x 3 pages with one worker
ScenarioInit == CrawlStart(createIndeedSearchTasks(<<"chef", "cook">>, 3), 1)

\* extractIndeedJobData applied to one card, and the handler's tests on what it
\* returns (lines 751-766)

\* the ways a field's text can sit in a card: under no selector, under the first
\* or the last of its list, under a later one behind a blank first one
Placements(selectors, text) ==
    { {}, {Node(selectors[1], text)}, {Node(selectors[Len(selectors)], text)},
      {Node(selectors[1], TextBlank)},
      {Node(selectors[1], TextBlank), Node(selectors[2], text)} }

Cards ==
    { Element(t \cup c \cup l \cup s \cup d, detached) :
        t \in Placements(titleSelectors, TextChef),
        c \in Placements(companySelectors, TextAcmePadded)
                \cup {{Node(companySelectors[2], TextMcD)}},
        l \in {{}, {Node(locationSelectors[4], TextAustin)}},
        s \in {{}, {Node(salarySelectors[3], TextSalary)}, {Node(salarySelectors[1], TextBlank)}},
        d \in {{}, {Node(descriptionSelectors[2], TextSnippet)}},
        detached \in BOOLEAN }

ExFrozen ==
    /\ exCard = Element({}, FALSE)
    /\ exPc = "returned"
    /\ exJobData = NullJob
    /\ exPushed = FALSE

ExInit ==
    /\ exCard \in Cards
    /\ exPc = "call"
    /\ exJobData = NullJob
    /\ exPushed = FALSE

\* const jobData = await extractIndeedJobData(page, jobElements[i]), then the
\* tests of lines 753-766
ExtractCard ==
    /\ exPc = "call"
    /\ exPc' = "returned"
    /\ exJobData' = extractIndeedJobData(exCard)
    /\ exPushed' = Accepted(extractIndeedJobData(exCard))
    /\ UNCHANGED exCard
    /\ UNCHANGED exOthers


\* ---- the loop over the cards of one page (lines 748-774) ----

MaxCards == 3

LoopCards == {CardOk, CardThrows, CardExcluded, CardSalaryName, CardNoTitle}

\* the branch of lines 753-766 the loop takes with what extractIndeedJobData
\* returned
CardBranch(jobData) ==
    IF jobData.isNull \/ jobData.title = NoTitleFound \/ jobData.company = NoCompanyFound
    THEN "dropped"
    ELSE IF shouldExcludeCompany(jobData.company) THEN "excluded"
    ELSE IF isSalaryCompanyName(jobData.company) THEN "salaryName"
    ELSE "pushed"

\* what the loop would do if a card that is not pushed ended it
IterationBreaksOnReject(card) ==
    LET jobData == extractIndeedJobData(card)
    IN  /\ loopTrace' = Append(loopTrace, [threw |-> EvaluateCard(card).threw,
                                           branch |-> CardBranch(jobData)])
        /\ loopJobs' = IF Accepted(jobData) THEN Append(loopJobs, jobData) ELSE loopJobs
        /\ loopI' = loopI + 1
        /\ loopPc' = IF Accepted(jobData) THEN "loop" ELSE "pushed"

\* what the loop would do if a throwing extraction reached the catch of line 781
IterationAbortsOnThrow(card) ==
    LET jobData == extractIndeedJobData(card)
    IN  /\ loopTrace' = Append(loopTrace, [threw |-> EvaluateCard(card).threw,
                                           branch |-> CardBranch(jobData)])
        /\ loopJobs' = IF Accepted(jobData) THEN Append(loopJobs, jobData) ELSE loopJobs
        /\ loopI' = loopI + 1
        /\ loopPc' = IF EvaluateCard(card).threw THEN "caught" ELSE "loop"

\* lines 750-770: one pass of the loop; an extraction that throws is caught at
\* line 393 and gives null, the tests of 753-766 push the record or go on
IterationOn(card) ==
    LET jobData == extractIndeedJobData(card)
    IN  /\ loopTrace' = Append(loopTrace, [threw |-> EvaluateCard(card).threw,
                                           branch |-> CardBranch(jobData)])
        /\ loopJobs' = IF Accepted(jobData) THEN Append(loopJobs, jobData) ELSE loopJobs
        /\ loopI' = loopI + 1
        /\ loopPc' = "loop"

LoopFrozen ==
    /\ loopElements = <<>>
    /\ loopI = 0
    /\ loopJobs = <<>>
    /\ loopPc = "pushed"
    /\ loopTrace = <<>>

\* line 748, over every page of up to MaxCards cards
LoopInit ==
    /\ loopElements \in UNION {[1..n -> LoopCards] : n \in 1..MaxCards}
    /\ loopI = 0
    /\ loopJobs = <<>>
    /\ loopPc = "loop"
    /\ loopTrace = <<>>

\* lines 749-771: for (let i = 0; i < jobElements.length; i++)
LoopIteration ==
    /\ loopPc = "loop"
    /\ loopI < Len(loopElements)
    /\ IterationOn(loopElements[loopI + 1])
    /\ UNCHANGED loopElements
    /\ UNCHANGED loopOthers

\* lines 773-774: the loop is over and pageJobs is pushed to allJobs
LoopExit ==
    /\ loopPc = "loop"
    /\ loopI >= Len(loopElements)
    /\ loopPc' = "pushed"
    /\ UNCHANGED <<loopElements, loopI, loopJobs, loopTrace>>
    /\ UNCHANGED loopOthers

\* ---- the attempts at one search task (lines 480-482, 781-790) ----

\* the places where a run of the handler on a search task ends (StatusOf),
\* the throw of line 695 ending in the catch of line 783
HandlerEndSites(retryCount) ==
    {"L631", "L653", "L669", "L674", "L742", "L779", "L783"}
        \cup (IF retryCount < requestHandlerRetryLimit THEN {"L695"} ELSE {"L699"})

\* failedUrls++ at lines 630, 673, 698, 741 and 783
CountsFailure(site) == site \in {"L631", "L674", "L695", "L699", "L742", "L783"}

\* a run of the handler on the task ends at `site`
CountAt(site) ==
    /\ attFailedUrls' = attFailedUrls + (IF CountsFailure(site) THEN 1 ELSE 0)
    /\ attLog' = IF CountsFailure(site) THEN Append(attLog, site) ELSE attLog

AttFrozen ==
    /\ attPc = "handled"
    /\ attRetryCount = 0
    /\ attLate = 0
    /\ attFailedUrls = 0
    /\ attLog = <<>>

\* lines 801-804: the task is queued with retryCount 0
AttInit ==
    /\ attPc = "queued"
    /\ attRetryCount = 0
    /\ attLate = 0
    /\ attFailedUrls = 0
    /\ attLog = <<>>

\* lines 521-523: the crawler calls the handler with the request
AttemptStart ==
    /\ attPc = "queued"
    /\ attPc' = "running"
    /\ UNCHANGED <<attRetryCount, attLate, attFailedUrls, attLog>>
    /\ UNCHANGED attOthers

\* the handler returns within requestHandlerTimeoutSecs: the request is handled
HandlerEnds ==
    /\ attPc = "running"
    /\ attPc' = "handled"
    /\ \E site \in HandlerEndSites(attRetryCount) : CountAt(site)
    /\ UNCHANGED <<attRetryCount, attLate>>
    /\ UNCHANGED attOthers

\* line 482: the handler is not done after requestHandlerTimeoutSecs; the
\* crawler takes the attempt for failed and retries the request (line 481) or
\* calls failedRequestHandler (lines 787-790), while the handler's code, which
\* nothing cancels, goes on
HandlerTimesOut ==
    /\ attPc = "running"
    /\ attLate' = attLate + 1
    /\ IF attRetryCount < maxRequestRetries
       THEN /\ attPc' = "queued"
            /\ attRetryCount' = attRetryCount + 1
            /\ UNCHANGED <<attFailedUrls, attLog>>
       ELSE /\ attPc' = "failed"
            /\ attFailedUrls' = attFailedUrls + 1
            /\ attLog' = Append(attLog, "L789")
            /\ UNCHANGED attRetryCount
    /\ UNCHANGED attOthers

\* a handler run that went on after its time-out reaches its end
LateHandlerEnds ==
    /\ attLate > 0
    /\ attLate' = attLate - 1
    /\ \E site \in HandlerEndSites(attRetryCount) : CountAt(site)
    /\ UNCHANGED <<attPc, attRetryCount>>
    /\ UNCHANGED attOthers

\* ---- makeIndeedScraperRequestWithRetry (part_002 lines 103-127) ----

\* maxRetries = 3, the default the one call of line 358 leaves in place
maxRetries == 3

\* what makeIndeedScraperRequest ends with (lines 132-171): it resolves with
\* the status of the response, or rejects with the error of the transport
Response(status) == [kind |-> "response", status |-> status]
TransportError(message) == [kind |-> "error", message |-> message]
\* new Error(`Failed after ${maxRetries} attempts`)
FailedAfter(n) == [kind |-> "failedAfter", attempts |-> n]
NoOutcome == [kind |-> "none"]

RequestOutcomes ==
    {Response(429), Response(200), Response(201), Response(400), Response(403),
     Response(500), TransportError("ECONNRESET"), TransportError("ETIMEDOUT")}

\* what a pass would do if it returned every response
PassReturnsAnyResponse(met) ==
    IF met.kind = "response"
    THEN /\ reqPc' = "returned"
         /\ reqOutcome' = met
         /\ UNCHANGED reqAttempt
    ELSE IF reqAttempt = maxRetries
    THEN /\ reqPc' = "threw"
         /\ reqOutcome' = met
         /\ UNCHANGED reqAttempt
    ELSE /\ reqAttempt' = reqAttempt + 1
         /\ UNCHANGED <<reqPc, reqOutcome>>

\* lines 105-123: one pass of the loop with what the request met
PassWith(met) ==
    IF met.kind = "response" /\ met.status = 429
    THEN \* wait, continue
         /\ reqAttempt' = reqAttempt + 1
         /\ UNCHANGED <<reqPc, reqOutcome>>
    ELSE IF met.kind = "response"
    THEN /\ reqPc' = "returned"
         /\ reqOutcome' = met
         /\ UNCHANGED reqAttempt
    ELSE IF reqAttempt = maxRetries
    THEN /\ reqPc' = "threw"
         /\ reqOutcome' = met
         /\ UNCHANGED reqAttempt
    ELSE \* wait 30 s, next pass
         /\ reqAttempt' = reqAttempt + 1
         /\ UNCHANGED <<reqPc, reqOutcome>>

ReqFrozen ==
    /\ reqPc = "returned"
    /\ reqAttempt = 0
    /\ reqOutcome = NoOutcome
    /\ reqMet = <<>>

\* line 104: let attempt = 1
ReqInit ==
    /\ reqPc = "loop"
    /\ reqAttempt = 1
    /\ reqOutcome = NoOutcome
    /\ reqMet = <<>>

\* lines 104-124: a pass of the loop issues one request
RetryPass ==
    /\ reqPc = "loop"
    /\ reqAttempt <= maxRetries
    /\ \E met \in RequestOutcomes :
         /\ reqMet' = Append(reqMet, met)
         /\ PassWith(met)
    /\ UNCHANGED reqOthers

\* line 126: the loop is over
RetryGivesUp ==
    /\ reqPc = "loop"
    /\ reqAttempt > maxRetries
    /\ reqPc' = "threw"
    /\ reqOutcome' = FailedAfter(maxRetries)
    /\ UNCHANGED <<reqAttempt, reqMet>>
    /\ UNCHANGED reqOthers

\* ---- the duplicate removal of scrapeJobsWithIndeedScraper ----
\* (indeed_scraper_api.js lines 364-401)

MaxJobs == 3

TextAcmeLower == <<"a","c","m","e">>
TextChefLower == <<"c","h","e","f">>
TextUnknown == <<"u","n","k","n","o","w","n">>

\* the jobs normalizeIndeedScraperJob delivers: title and company are never
\* empty (lines 204-205)
JobPool ==
    { [company |-> TextAcme, title |-> TextChef],
      [company |-> TextAcmePadded, title |-> TextChef],
      [company |-> TextAcmeLower, title |-> TextChefLower],
      [company |-> TextMcD, title |-> TextChef],
      [company |-> TextAcme, title |-> TextSnippet] }

\* a job object of allJobs: objects at different places are different objects
JobAt(i, fields) == [id |-> i, company |-> fields.company, title |-> fields.title]

\* the key without toLowerCase
jobKeyCaseSensitive(job) ==
    trim(Or(job.company, TextUnknown)) \o <<"|">> \o trim(Or(job.title, TextUnknown))

\* lines 371-373: `${company}|${title}`
jobKey(job) ==
    trim(toLowerCase(Or(job.company, TextUnknown))) \o <<"|">>
        \o trim(toLowerCase(Or(job.title, TextUnknown)))

\* lines 369-384: for (const job of allJobs)
RECURSIVE RemoveDuplicates(_, _, _, _, _)
RemoveDuplicates(jobs, i, uniqueJobs, seenJobs, duplicateCount) ==
    IF i > Len(jobs)
    THEN [uniqueJobs |-> uniqueJobs, duplicateCount |-> duplicateCount]
    ELSE IF jobKey(jobs[i]) \notin seenJobs
    THEN RemoveDuplicates(jobs, i + 1, Append(uniqueJobs, jobs[i]),
                          seenJobs \cup {jobKey(jobs[i])}, duplicateCount)
    ELSE RemoveDuplicates(jobs, i + 1, uniqueJobs, seenJobs, duplicateCount + 1)

DdFrozen ==
    /\ ddAllJobs = <<>>
    /\ ddPc = "returned"
    /\ ddUniqueJobs = <<>>
    /\ ddDuplicateCount = 0

\* every collection of up to MaxJobs jobs
DdInit ==
    /\ ddAllJobs \in { [i \in 1..Len(fields) |-> JobAt(i, fields[i])] :
                         fields \in UNION {[1..n -> JobPool] : n \in 0..MaxJobs} }
    /\ ddPc = "call"
    /\ ddUniqueJobs = <<>>
    /\ ddDuplicateCount = 0

\* lines 364-401: uniqueJobs is built and returned
Deduplicate ==
    /\ ddPc = "call"
    /\ ddPc' = "returned"
    /\ ddUniqueJobs' = RemoveDuplicates(ddAllJobs, 1, <<>>, {}, 0).uniqueJobs
    /\ ddDuplicateCount' = RemoveDuplicates(ddAllJobs, 1, <<>>, {}, 0).duplicateCount
    /\ UNCHANGED ddAllJobs
    /\ UNCHANGED ddOthers

\* ---- one call of performIndeedSearch, over every landing page ----

AllForms ==
    [gotoThrows : BOOLEAN, whatInput : BOOLEAN, whereInput : BOOLEAN,
     searchButton : BOOLEAN, navigationThrows : BOOLEAN]

SearchJobTypes == {"chef", "cook"}
SearchLocations == {DefaultLocation, "Austin, TX"}

SearchFrozen ==
    /\ searchForm = [gotoThrows |-> FALSE, whatInput |-> TRUE, whereInput |-> TRUE,
                     searchButton |-> TRUE, navigationThrows |-> FALSE]
    /\ searchArgs = [jobType |-> "chef", location |-> DefaultLocation]
    /\ searchPc = "returned"
    /\ searchPage = LandingPage
    /\ searchReturn = [raised |-> FALSE, value |-> FALSE]

SearchInit ==
    /\ searchForm \in AllForms
    /\ searchArgs \in [jobType : SearchJobTypes, location : SearchLocations]
    /\ searchPc = "call"
    /\ searchPage = LandingPage
    /\ searchReturn = [raised |-> FALSE, value |-> FALSE]

\* const searchSuccess = await performIndeedSearch(page, jobType, location, salaryMin)
SearchCall ==
    /\ searchPc = "call"
    /\ searchPc' = "returned"
    /\ LET r == performIndeedSearch(searchForm, searchArgs.jobType, searchArgs.location)
       IN  /\ searchPage' = r.page
           /\ searchReturn' = IF r.threw THEN [raised |-> TRUE, value |-> FALSE]
                              ELSE [raised |-> FALSE, value |-> r.value]
    /\ UNCHANGED <<searchForm, searchArgs>>
    /\ UNCHANGED searchOthers

\* ---- the session pool's configuration (lines 471-478) ----

sessionPoolOptions ==
    [maxPoolSize |-> 10,
     sessionOptions |-> [maxUsageCount |-> 5, maxErrorScore |-> 3]]

\* ---- the handler runs and their sessions ----
\* The crawler runs each request's handler with a session of its pool. Which
\* session that is, is the pool's choice: any usable session no handler holds,
\* or a new one while the pool has room. A session is usable for
\* maxUsageCount handler runs.

MaxSessionTasks == 5
MaxSessions == 3

SessionSlots == 1..MaxSessions
NoSession == [usable |-> FALSE]
\* forced: no usable session was free when the pool created this one
NewSession(forced) ==
    [usable |-> TRUE, usageCount |-> 0, warmups |-> 0, setups |-> 0, forced |-> forced]
NoRun == [kind |-> "none", slot |-> 0]

UsableSlots == {k \in SessionSlots : sessPool[k].usable}
HeldSessions == {sessRun[w].slot : w \in Workers} \ {0}
FreeSessions == UsableSlots \ HeldSessions

\* the stealth set-up belongs to the session: a session that had it is left alone
ApplySetupOncePerSession(session) ==
    IF session.setups = 0 THEN [session EXCEPT !.setups = 1] ELSE session

\* lines 541-622: the stealth set-up of a task's page
ApplySetup(session) == [session EXCEPT !.setups = @ + 1]

\* lines 526-539: the warm-up visit
ApplyWarmup(session) == [session EXCEPT !.warmups = @ + 1]

\* lines 521-622 for the request of kind `kind`, run with `session`
HandlerEntry(kind, session) ==
    IF kind = "warmup" THEN ApplyWarmup(session) ELSE ApplySetup(session)

\* the next request of the queue of lines 795-804: the warm-up first
NextKind == IF sessPending.warmup THEN "warmup" ELSE "task"

SessFrozen ==
    /\ sessConcurrency = 0
    /\ sessPending = [warmup |-> FALSE, tasks |-> 0]
    /\ sessPool = [k \in SessionSlots |-> NoSession]
    /\ sessRun = [w \in Workers |-> NoRun]

SessInit ==
    /\ sessConcurrency \in 1..MaxWorkers
    /\ sessPending \in [warmup : {TRUE}, tasks : 1..MaxSessionTasks]
    /\ sessPool = [k \in SessionSlots |-> NoSession]
    /\ sessRun = [w \in Workers |-> NoRun]

\* a free worker takes the next request; the pool gives the run the session of
\* slot k, a free usable one or one it creates there; the handler is entered
SessionStart(w) ==
    /\ w <= sessConcurrency
    /\ sessRun[w] = NoRun
    /\ \A v \in 1..(w - 1) : sessRun[v] # NoRun
    /\ sessPending.warmup \/ sessPending.tasks > 0
    /\ \E k \in SessionSlots :
         /\ k \notin HeldSessions
         /\ k \in UsableSlots
            \/ /\ Cardinality(UsableSlots) < sessionPoolOptions.maxPoolSize
               /\ \A j \in SessionSlots \ UsableSlots : k <= j
         /\ LET session == IF k \in UsableSlots THEN sessPool[k]
                           ELSE NewSession(FreeSessions = {})
            IN  sessPool' = [sessPool EXCEPT ![k] = HandlerEntry(NextKind, session)]
         /\ sessRun' = [sessRun EXCEPT ![w] = [kind |-> NextKind, slot |-> k]]
    /\ sessPending' = IF sessPending.warmup
                      THEN [sessPending EXCEPT !.warmup = FALSE]
                      ELSE [sessPending EXCEPT !.tasks = @ - 1]
    /\ UNCHANGED sessConcurrency
    /\ UNCHANGED sessOthers

\* the handler returns; the session has served one more run and is retired
\* once it has served maxUsageCount of them (line 475)
SessionEnd(w) ==
    /\ sessRun[w] # NoRun
    /\ LET k == sessRun[w].slot
           usageCount == sessPool[k].usageCount + 1
       IN  sessPool' = [sessPool EXCEPT ![k] =
                          IF usageCount >= sessionPoolOptions.sessionOptions.maxUsageCount
                          THEN NoSession
                          ELSE [sessPool[k] EXCEPT !.usageCount = usageCount]]
    /\ sessRun' = [sessRun EXCEPT ![w] = NoRun]
    /\ UNCHANGED <<sessConcurrency, sessPending>>
    /\ UNCHANGED sessOthers

WorkerStep(w) ==
    \/ NavigationFails(w)
    \/ HandlerStart(w)
    \/ Warmup(w)
    \/ Interact(w)
    \/ Paginate(w)
    \/ ChallengeCheck(w)
    \/ Extract(w)
    \/ Pacing(w)

Next == (\E w \in Workers : WorkerStep(w)) \/ RunReturns

Init == CrawlInit /\ GenFrozen /\ CfFrozen /\ ExFrozen /\ SearchFrozen /\ SessFrozen /\ LoopFrozen /\ AttFrozen /\ ReqFrozen /\ DdFrozen
Spec == Init /\ [][Next]_vars
FairSpec == Spec /\ WF_vars(Next)

InitScenario == ScenarioInit /\ GenFrozen /\ CfFrozen /\ ExFrozen /\ SearchFrozen /\ SessFrozen /\ LoopFrozen /\ AttFrozen /\ ReqFrozen /\ DdFrozen
SpecScenario == InitScenario /\ [][Next]_vars

InitTasks == GenInit /\ CfFrozen /\ CrawlFrozen /\ ExFrozen /\ SearchFrozen /\ SessFrozen /\ LoopFrozen /\ AttFrozen /\ ReqFrozen /\ DdFrozen
NextTasks == CreateTasks
SpecTasks == InitTasks /\ [][NextTasks]_vars

InitChallenge == CfInit /\ GenFrozen /\ CrawlFrozen /\ ExFrozen /\ SearchFrozen /\ SessFrozen /\ LoopFrozen /\ AttFrozen /\ ReqFrozen /\ DdFrozen
NextChallenge == CfDetect \/ PageNavigates \/ CfPollRound
SpecChallenge == InitChallenge /\ [][NextChallenge]_vars

InitExtract == ExInit /\ GenFrozen /\ CfFrozen /\ CrawlFrozen /\ SearchFrozen /\ SessFrozen /\ LoopFrozen /\ AttFrozen /\ ReqFrozen /\ DdFrozen
NextExtract == ExtractCard
SpecExtract == InitExtract /\ [][NextExtract]_vars

InitSearch == SearchInit /\ GenFrozen /\ CfFrozen /\ CrawlFrozen /\ ExFrozen /\ SessFrozen /\ LoopFrozen /\ AttFrozen /\ ReqFrozen /\ DdFrozen
NextSearch == SearchCall
SpecSearch == InitSearch /\ [][NextSearch]_vars

InitSessions ==
    SessInit /\ GenFrozen /\ CfFrozen /\ CrawlFrozen /\ ExFrozen /\ SearchFrozen /\ LoopFrozen /\ AttFrozen /\ ReqFrozen /\ DdFrozen
NextSessions == \E w \in Workers : SessionStart(w) \/ SessionEnd(w)
SpecSessions == InitSessions /\ [][NextSessions]_vars

InitLoop ==
    LoopInit /\ GenFrozen /\ CfFrozen /\ CrawlFrozen /\ ExFrozen /\ SearchFrozen /\ SessFrozen /\ AttFrozen /\ ReqFrozen /\ DdFrozen
NextLoop == LoopIteration \/ LoopExit
SpecLoop == InitLoop /\ [][NextLoop]_vars

InitAttempts ==
    AttInit /\ GenFrozen /\ CfFrozen /\ CrawlFrozen /\ ExFrozen /\ SearchFrozen /\ SessFrozen /\ ReqFrozen /\ DdFrozen
        /\ LoopFrozen
NextAttempts == AttemptStart \/ HandlerEnds \/ HandlerTimesOut \/ LateHandlerEnds
SpecAttempts == InitAttempts /\ [][NextAttempts]_vars

InitRetry ==
    ReqInit /\ GenFrozen /\ CfFrozen /\ CrawlFrozen /\ ExFrozen /\ SearchFrozen /\ SessFrozen /\ DdFrozen
        /\ LoopFrozen /\ AttFrozen
NextRetry == RetryPass \/ RetryGivesUp
SpecRetry == InitRetry /\ [][NextRetry]_vars

InitDedup ==
    DdInit /\ GenFrozen /\ CfFrozen /\ CrawlFrozen /\ ExFrozen /\ SearchFrozen /\ SessFrozen
        /\ LoopFrozen /\ AttFrozen /\ ReqFrozen
NextDedup == Deduplicate
SpecDedup == InitDedup /\ [][NextDedup]_vars

----------------------------------------------------------------------------
\* Properties of createIndeedSearchTasks, checked under SpecTasks

\* C1: the generator returns exactly len(T)*P tasks, and the task at index
\* i*P+p carries term T[i], page index p and isFirstPage exactly when p = 0.
C1_TermMajorPageMinor ==
    genPc = "returned" =>
        /\ Len(genTasks) = Len(genJobTypes) * genMaxPages
        /\ \A i \in 0..(Len(genJobTypes) - 1), p \in 0..(genMaxPages - 1) :
             LET task == genTasks[i * genMaxPages + p + 1]
             IN  /\ task.jobType = genJobTypes[i + 1]
                 /\ task.pageNumber = p
                 /\ task.isFirstPage = (p = 0)

C1_Witness ==
    /\ genPc = "returned"
    /\ Len(genJobTypes) >= 2
    /\ genJobTypes[1] # genJobTypes[2]
    /\ genMaxPages >= 2
    /\ Len(genTasks) >= 4

----------------------------------------------------------------------------
\* Properties of handleCloudflareChallenge, checked under SpecChallenge

Returned == cfPc = "returned"

\* C6: with a results marker present on entry the resolver returns a
\* resolved/no-challenge state with zero poll rounds consumed, whatever the
\* title and the body text say (no page read failing).
C6_MarkerShortCircuits ==
    (Returned /\ cfEntryMarker /\ ~cfErrSeen) => (cfReturn = TRUE /\ attempts = 0)

\* C7: a title holding "checking your browser" (in any letter case) with no
\* results marker never yields NoChallenge: the result is Resolved or TimedOut,
\* and a true result comes only out of the poll loop.
C7_IndicatorTitleIsPolled ==
    (Returned /\ initialTitle = TitleChecking /\ ~cfEntryMarker) =>
        /\ cfState \in {"Resolved", "TimedOut"}
        /\ (cfReturn = TRUE => attempts >= 1)
        /\ (~cfErrSeen => attempts >= 1)

C7_Witness ==
    /\ Returned
    /\ initialTitle = TitleChecking
    /\ ~cfEntryMarker
    /\ ~hasCloudflareContent
    /\ cfState = "Resolved"
    /\ attempts >= 2

\* C8: a view classified as challenged whose URL and title never change and
\* which never shows a results marker returns TimedOut after exactly the round
\* ceiling (no page read failing).
C8_StableViewTimesOutAtCeiling ==
    (Returned /\ (isCloudflareChallenge \/ hasCloudflareContent) /\ cfStable /\ ~cfErrSeen) =>
        (cfState = "TimedOut" /\ attempts = maxAttempts)

\* C9: the resolver runs at most the round ceiling of poll rounds, CAPTCHA
\* rounds included, can always go on to its return, and returns one of
\* NoChallenge, Resolved, TimedOut.
C9_BoundedRoundsAndResult ==
    /\ attempts <= maxAttempts
    /\ cfPc = "poll" => attempts < maxAttempts
    /\ Returned => /\ cfState \in {"NoChallenge", "Resolved", "TimedOut"}
                   /\ cfState # "CaptchaRequired"
                   /\ cfReturn = (cfState # "TimedOut")

C9_Witness ==
    /\ Returned
    /\ cfCaptchaSeen
    /\ cfState = "TimedOut"
    /\ attempts = maxAttempts

\* C10: no failing page read makes the resolver throw: it always returns a value.
C10_NeverThrows ==
    /\ ~cfThrew
    /\ Returned => cfReturn \in BOOLEAN

C10_Witness ==
    /\ Returned
    /\ cfErrSeen
    /\ isCloudflareChallenge
    /\ attempts >= 2

----------------------------------------------------------------------------
\* Properties of scrapeIndeedJobs

HandledTotal ==
    handled["Warmup"] + handled["Skipped"] + handled["NoMorePages"]
        + handled["Done"] + handled["Failed"]

RunReturned == crawlPc = "returned"

\* C2: in the run over 2 search terms x 3 pages with one worker, when the two
\* page-0 tasks end Done, their pages offering 10 records each, and the four
\* later pages report no-more-pages (no navigation failing), the result has
\* exactly 20 records, the processed counter is 6 and the failed counter is 0.
\* Checked under SpecScenario.
C2_ScenarioTotals ==
    (/\ RunReturned
     /\ navFailures = 0
     /\ handled["Done"] = 2
     /\ handled["NoMorePages"] = 4
     /\ located.offered = 20
     /\ located.unresolved = 0) =>
        (Len(result) = 20 /\ processedUrls = 6 /\ failedUrls = 0)

\* C3: a challenge check that times out on a task's first or second attempt
\* does not end the task: the failed counter is not incremented for it and the
\* task is queued again, so that a success on the third attempt ends it Done.
C3_TimeoutThenSuccessEndsDone ==
    [][\A w \in Workers :
          (/\ pc[w] = "challenge"
           /\ cur[w].retryCount < maxRequestRetries
           /\ pc'[w] # "extract"
           /\ pc'[w] # "challenge") =>
              (/\ failedUrls' = failedUrls
               /\ handled' = handled
               /\ Len(queue') = Len(queue) + 1
               /\ queue'[Len(queue')].id = cur[w].id
               /\ queue'[Len(queue')].retryCount = cur[w].retryCount + 1)]_vars

\* C4: a task becomes Failed after a challenge time-out only when its retry
\* budget is exhausted (3 attempts made): while budget remains it is not
\* abandoned.
C4_FailedOnlyWhenBudgetExhausted ==
    [][\A w \in Workers :
          (/\ pc[w] = "challenge"
           /\ handled'["Failed"] = handled["Failed"] + 1
           /\ pc'[w] = "idle") =>
              cur[w].retryCount >= maxRequestRetries]_vars

\* C5: the run terminates whatever the outcomes of the tasks are: every
\* request (the warm-up and each task) reaches a final status, no failure
\* stops the run, and the records accumulated are the ones returned.
C5_RunTerminates ==
    /\ [](RunReturned =>
            /\ HandledTotal = Len(searchTasks) + 1
            /\ queue = <<>>
            /\ \A w \in Workers : pc[w] = "idle"
            /\ result = allJobs)
    /\ <>RunReturned

C5_Witness ==
    /\ RunReturned
    /\ Len(searchTasks) >= 2
    /\ handled["Failed"] >= 1
    /\ handled["Done"] >= 1
    /\ navFailures >= 1
    /\ located.offered >= 1

\* C11: for a non-first-page task whose results-count indicator declares a
\* total smaller than (pageNumber+1)*10 (a total of 15 on page index 2, say),
\* the pagination step ends the task as no-more-pages at the count guard: no
\* next-page control is clicked, nothing fails and the challenge check is not
\* entered.  Checked under SpecScenario.
C11_CountGuardStopsPagination ==
    [][\A w \in Workers :
          (/\ pc[w] = "paginate"
           /\ pc'[w] # "paginate"
           /\ cur[w].count.present
           /\ cur[w].count.total < (cur[w].userData.pageNumber + 1) * 10) =>
              (/\ pc'[w] = "idle"
               /\ handled'["NoMorePages"] = handled["NoMorePages"] + 1
               /\ failedUrls' = failedUrls
               /\ allJobs' = allJobs)]_vars

C11_Witness ==
    \E w \in Workers :
        /\ pc[w] = "paginate"
        /\ cur[w].userData.pageNumber = 2
        /\ cur[w].count.present
        /\ cur[w].count.total = 15

----------------------------------------------------------------------------
\* Properties of extractIndeedJobData, checked under SpecExtract

ExReturned == exPc = "returned"

C13_MissingSalaryKeepsRecord ==
    (/\ ExReturned
     /\ ~exCard.detached
     /\ Resolved(titleSelectors, exCard)
     /\ Resolved(companySelectors, exCard)
     /\ ~Resolved(salarySelectors, exCard)) =>
        (/\ ~exJobData.isNull
         /\ exJobData.salary = <<>>
         /\ exJobData.title = FirstText(titleSelectors, 1, exCard)
         /\ exJobData.company = FirstText(companySelectors, 1, exCard))

----------------------------------------------------------------------------
\* Properties of the records scrapeIndeedJobs accumulates

HasTitleAndCompany(jobData) ==
    /\ ~jobData.isNull
    /\ jobData.title \notin {<<>>, NoTitleFound}
    /\ jobData.company \notin {<<>>, NoCompanyFound}

\* C14: in every reachable state every record of allJobs, and of the returned
\* array, has a resolved title and a resolved company: a card whose title or
\* company no selector resolves is never appended.
C14_RecordsHaveTitleAndCompany ==
    /\ \A i \in 1..Len(allJobs) : HasTitleAndCompany(allJobs[i])
    /\ \A i \in 1..Len(result) : HasTitleAndCompany(result[i])

C14_Witness ==
    /\ RunReturned
    /\ located.unresolved >= 2
    /\ handled["Done"] >= 2

----------------------------------------------------------------------------
\* Properties of the run's result, checked under Spec

----------------------------------------------------------------------------
\* Properties of performIndeedSearch, checked under SpecSearch

SearchReturned == searchPc = "returned"

ControlMissing(form) == ~form.whatInput \/ ~form.whereInput \/ ~form.searchButton

\* C18: when the query input, the location input or the submit control is
\* not found on the landing page, performIndeedSearch returns false, raises no
\* exception and leaves the form unsubmitted.
C18_MissingControlReturnsFalse ==
    (SearchReturned /\ ControlMissing(searchForm)) =>
        (/\ ~searchReturn.raised
         /\ searchReturn.value = FALSE
         /\ ~searchPage.submitted)

C18_Witness ==
    /\ SearchReturned
    /\ ~searchForm.gotoThrows
    /\ ~searchForm.navigationThrows
    /\ searchForm.whatInput
    /\ searchForm.whereInput
    /\ ~searchForm.searchButton
    /\ searchPage.what = searchArgs.jobType
    /\ searchReturn.value = FALSE

----------------------------------------------------------------------------
\* Properties of the handler's early returns, checked under Spec

\* C19: the search of a first-page task on a landing page that lacks a
\* control ends the task at once as Skipped: the failed counter is not
\* incremented for it, the task is not queued again, and neither the
\* challenge check nor the extraction is entered.
C19_MissingControlsSkipsTask ==
    [][\A w \in Workers : \A form \in Forms :
          (/\ pc[w] = "interact"
           /\ cur[w].userData.isFirstPage
           /\ ~form.gotoThrows
           /\ ControlMissing(form)
           /\ FirstPageSearch(w, form)) =>
              (/\ pc'[w] = "idle"
               /\ handled'["Skipped"] = handled["Skipped"] + 1
               /\ handled'["Failed"] = handled["Failed"]
               /\ failedUrls' = failedUrls
               /\ queue' = queue)]_vars

\* C20: a later-page task that reports no-more-pages, at the count guard or
\* for want of a next-page control, ends at once with no record: the records
\* and the failed counter are left as they were and the task is not queued
\* again.
C20_NoMorePagesEndsQuietly ==
    [][\A w \in Workers : \A present \in NextControls :
          (/\ pc[w] = "paginate"
           /\ \/ BelowExpected(TotalResults(cur[w].count), cur[w].userData.pageNumber)
              \/ FirstNextSelector(present) = 0
           /\ IF BelowExpected(TotalResults(cur[w].count), cur[w].userData.pageNumber)
              THEN pc'[w] # "paginate"
              ELSE NextPage(w, present)) =>
              (/\ pc'[w] = "idle"
               /\ handled'["NoMorePages"] = handled["NoMorePages"] + 1
               /\ handled'["Failed"] = handled["Failed"]
               /\ failedUrls' = failedUrls
               /\ allJobs' = allJobs
               /\ located' = located
               /\ queue' = queue)]_vars

C20_Witness ==
    /\ RunReturned
    /\ handled["NoMorePages"] >= 1
    /\ handled["Done"] >= 1
    /\ failedUrls = 0
    /\ navFailures = 0
    /\ HandledTotal = Len(searchTasks) + 1

----------------------------------------------------------------------------
\* Properties of the pagination step, checked under Spec

\* C21: on a page without a results-count indicator the pagination step does
\* not stop at the count guard: it looks for a next-page control, and ends
\* the task as no-more-pages only when the page has none.
C21_NoIndicatorSkipsCountGuard ==
    [][\A w \in Workers : \A present \in NextControls :
          (/\ pc[w] = "paginate"
           /\ ~cur[w].count.present
           /\ PaginateOn(w, present)) =>
              NextPage(w, present)]_vars

\* C22: when the count guard passes, the next-page selectors are tried in
\* their order and the first that matches is the one clicked: with a control
\* found the task goes on to the challenge check, or, if the click or the
\* wait for the navigation throws, is counted failed once and ends without
\* extraction; with none found it ends as no-more-pages.
C22_FirstMatchingNextControl ==
    [][\A w \in Workers : \A present \in NextControls :
          (/\ pc[w] = "paginate"
           /\ ~BelowExpected(TotalResults(cur[w].count), cur[w].userData.pageNumber)
           /\ PaginateOn(w, present)) =>
              IF \A k \in 1..Len(NextSelectors) : NextSelectors[k] \notin present
              THEN /\ pc'[w] = "idle"
                   /\ handled'["NoMorePages"] = handled["NoMorePages"] + 1
                   /\ failedUrls' = failedUrls
              ELSE \/ /\ pc'[w] = "challenge"
                      /\ cur'[w].nextButton \in 1..Len(NextSelectors)
                      /\ NextSelectors[cur'[w].nextButton] \in present
                      /\ \A j \in 1..(cur'[w].nextButton - 1) :
                            NextSelectors[j] \notin present
                      /\ failedUrls' = failedUrls
                      /\ handled' = handled
                   \/ /\ pc'[w] = "idle"
                      /\ handled'["Failed"] = handled["Failed"] + 1
                      /\ failedUrls' = failedUrls + 1
                      /\ allJobs' = allJobs
                      /\ located' = located]_vars

C22_Witness ==
    \E w \in Workers :
        /\ pc[w] = "challenge"
        /\ cur[w].nextButton = 3
        /\ failedUrls >= 1

----------------------------------------------------------------------------
\* Properties of the stages of a task attempt, checked under Spec

InFlight == {w \in Workers : pc[w] # "idle"}

\* C23: an attempt moves only forward through its stages: a pending request is
\* taken into the interaction stage (search, or count and next-page control),
\* the challenge check is entered from there only, the extraction only from a
\* challenge check that returned true, and the pacing only from the
\* extraction; cards are met and records appended in the step that leaves the
\* extraction only; a request that reached a final status keeps it: it is
\* never queued or handled again.
C23_StagesInOrder ==
    /\ [][\A w \in Workers :
            /\ (pc'[w] # pc[w] /\ pc'[w] \in {"warmup", "interact"}) => pc[w] = "idle"
            /\ (pc'[w] # pc[w] /\ pc'[w] = "paginate") => pc[w] = "interact"
            /\ (pc'[w] # pc[w] /\ pc'[w] = "challenge") => pc[w] \in {"interact", "paginate"}
            /\ (pc'[w] # pc[w] /\ pc'[w] = "extract") => pc[w] = "challenge"
            /\ (pc'[w] # pc[w] /\ pc'[w] = "pacing") => pc[w] = "extract"
            /\ \A cloudflareSuccess \in BOOLEAN :
                  (/\ pc[w] = "challenge"
                   /\ pc'[w] = "extract"
                   /\ AfterChallenge(w, cloudflareSuccess)) => cloudflareSuccess]_vars
    /\ [][(\/ allJobs' # allJobs
            \/ located'.offered # located.offered
            \/ located'.unresolved # located.unresolved) =>
            \E w \in Workers : pc[w] = "extract" /\ pc'[w] = "pacing"]_vars
    /\ [][\A st \in Statuses : handled'[st] >= handled[st]]_vars
    /\ [](HandledTotal + Len(queue) + Cardinality(InFlight) = Len(searchTasks) + 1)

C23_Witness ==
    /\ \E w \in Workers : pc[w] = "pacing" /\ cur[w].userData.pageNumber = 1
    /\ handled["Skipped"] + handled["Failed"] >= 1
    /\ located.offered >= 1

----------------------------------------------------------------------------
\* Properties of the poll rounds of handleCloudflareChallenge, checked under
\* SpecChallenge

Rounds == (ErrorMessages \cup {NoError}) \X BOOLEAN \X BOOLEAN
ErrorRounds == ErrorMessages \X BOOLEAN \X BOOLEAN

\* C24: in every poll round that reads the page without error, the URL test
\* ends the resolver as Resolved (the return of line 198) exactly when the
\* current URL differs from the URL the preceding round met -- also when that
\* round saw a CAPTCHA iframe or a page-access error -- and does not look
\* like a challenge URL.
C24_UrlComparedWithPrecedingRound ==
    [][\A r \in Rounds :
          (/\ cfPc = "poll"
           /\ attempts' = attempts + 1
           /\ r[1] = NoError
           /\ PollRound(r[1], r[2], r[3])) =>
              ((cfSite' = "L198") <=>
                   (pageUrl # cfPrevUrl /\ ~ChallengeUrlIn[pageUrl]))]_vars

----------------------------------------------------------------------------
\* Properties of the sessions of the handler runs, checked under SpecSessions

\* C26: every new session has run the warm-up visit exactly once by the time
\* a search task is handled with it -- the first session and every later one
\* the pool had to create because no usable session was free -- and a warm-up
\* run applies no set-up of a task.
C26_WarmupOncePerFreshSession ==
    \A w \in Workers :
        LET session == sessPool[sessRun[w].slot]
        IN  /\ (sessRun[w].kind = "task" /\ session.forced) => session.warmups = 1
            /\ sessRun[w].kind = "warmup" => session.setups = 0

\* C28 as stated: the stealth set-up is applied exactly once per session,
\* before the first task handled with the session interacts with the page,
\* and not again for the later tasks handled with the same session.
C28_SetupOncePerSession ==
    /\ \A k \in UsableSlots : sessPool[k].setups <= 1
    /\ \A w \in Workers :
          sessRun[w].kind = "task" => sessPool[sessRun[w].slot].setups >= 1

\* C28, amended: the stealth set-up is applied exactly once in every handler
\* run of a search task, at the run's entry and so before the task interacts
\* with the page, whether or not the run's session had it applied before; the
\* run of the warm-up request applies none.
C28_SetupOncePerTaskRun ==
    [][\A w \in Workers :
          (sessRun[w] = NoRun /\ sessRun'[w] # NoRun) =>
              LET k == sessRun'[w].slot
                  before == IF k \in UsableSlots THEN sessPool[k].setups ELSE 0
              IN  sessPool'[k].setups =
                      before + (IF sessRun'[w].kind = "task" THEN 1 ELSE 0)]_vars

C28_Witness ==
    \E w \in Workers :
        /\ sessRun[w].kind = "task"
        /\ sessPool[sessRun[w].slot].setups = 2
        /\ sessPool[sessRun[w].slot].warmups = 1

----------------------------------------------------------------------------
\* Properties of the warm-up's place in the run, checked under Spec

\* C27: for every concurrency bound, no search task is in its interaction
\* stage (or a later one) before the handler of the warm-up request has
\* returned -- here in the runs in which no navigation of the crawler fails.
C27_WarmupFinishesBeforeTasks ==
    (/\ navFailures = 0
     /\ \E w \in Workers : pc[w] \notin {"idle", "warmup"}) =>
        handled["Warmup"] = 1

----------------------------------------------------------------------------
\* Properties of the pacing delay, checked under Spec

\* C29: the pacing delay is entered from the extraction step, in the step
\* that appends the page's records, and from nowhere else; while it lasts the
\* worker keeps its request and takes no other; the handler of a task ends
\* Done only out of the pacing delay, and a task that ends skipped,
\* no-more-pages or failed has not passed through it.
C29_PacingFollowsExtractionOnly ==
    [][\A w \in Workers :
          /\ (pc'[w] = "pacing" /\ pc[w] # "pacing") =>
                (pc[w] = "extract" /\ cur'[w] = cur[w] /\ located' # located)
          /\ pc[w] = "pacing" =>
                \/ pc'[w] = "pacing" /\ cur'[w] = cur[w]
                \/ /\ pc'[w] = "idle"
                   /\ handled'["Done"] = handled["Done"] + 1
                   /\ failedUrls' = failedUrls
                   /\ queue' = queue
          /\ (pc[w] \notin {"idle", "pacing"} /\ pc'[w] = "idle") =>
                handled'["Done"] = handled["Done"]]_vars

C29_Witness ==
    /\ handled["Done"] = 1
    /\ handled["NoMorePages"] + handled["Skipped"] + handled["Failed"] = 1
    /\ located.offered >= 1
    /\ \A w \in Workers : pc[w] = "idle"

----------------------------------------------------------------------------
\* Properties of the extraction loop, checked under SpecLoop

\* the company a card shows: the text its company selectors resolve to
CompanyOf(card) == FirstText(companySelectors, 1, card)

Filtered(company) == shouldExcludeCompany(company) \/ isSalaryCompanyName(company)

C33_ThrowingCardIsOnlyDiscarded ==
    [][/\ (Len(loopTrace') > Len(loopTrace) /\ loopTrace'[Len(loopTrace')].threw) =>
            /\ loopJobs' = loopJobs
            /\ loopPc' = "loop"
            /\ loopI' = loopI + 1
       /\ loopPc' # "caught"
       /\ (loopPc = "loop" /\ loopPc' = "pushed") =>
            /\ loopI = Len(loopElements)
            /\ loopJobs' = ExtractLoop(loopElements, 1, <<>>)]_vars

C33_Witness ==
    /\ loopPc = "pushed"
    /\ Len(loopElements) = 3
    /\ loopElements[1] = CardThrows
    /\ loopElements[2] = CardOk
    /\ loopTrace[1].threw
    /\ Len(loopTrace) = 3

----------------------------------------------------------------------------
\* Properties of the fallback lists, checked under SpecExtract

\* the position of the first selector of a list that gives non-empty text, 0
\* when none does
FirstMatching(selectors, element) ==
    IF \E k \in 1..Len(selectors) : getText(selectors[k], element) # <<>>
    THEN CHOOSE k \in 1..Len(selectors) :
            /\ getText(selectors[k], element) # <<>>
            /\ \A j \in 1..(k - 1) : getText(selectors[j], element) = <<>>
    ELSE 0

\* the value the field has by its list: the text of the first matching
\* selector, else the value for no match
FieldBy(selectors, element, none) ==
    IF FirstMatching(selectors, element) = 0 THEN none
    ELSE getText(selectors[FirstMatching(selectors, element)], element)

\* C34: for an attached card the value extracted for title, company,
\* location, salary and description is the text of the first selector of the
\* field's list that gives non-empty text, and the placeholder or the empty
\* text exactly when no selector of the list matches.
C34_FirstNonEmptySelectorWins ==
    (ExReturned /\ ~exCard.detached) =>
        /\ ~exJobData.isNull
        /\ exJobData.title = FieldBy(titleSelectors, exCard, NoTitleFound)
        /\ exJobData.company = FieldBy(companySelectors, exCard, NoCompanyFound)
        /\ exJobData.location = FieldBy(locationSelectors, exCard, NoLocationFound)
        /\ exJobData.salary = FieldBy(salarySelectors, exCard, <<>>)
        /\ exJobData.description = FieldBy(descriptionSelectors, exCard, <<>>)

----------------------------------------------------------------------------
\* Properties of the run's counters, checked under Spec

\* C36: processedUrls never exceeds the number of search tasks given to the
\* run.
C36_ProcessedAtMostTasks == processedUrls <= Len(searchTasks)

----------------------------------------------------------------------------
\* Properties of the attempts at one task, checked under SpecAttempts

\* C35: over any sequence of attempts, handler time-outs and retries, the
\* task adds at most one to failedUrls.
C35_TaskCountedFailedAtMostOnce == attFailedUrls <= 1

----------------------------------------------------------------------------
\* Properties of a results page without cards, checked under Spec

\* C37: when the handler, past the challenge check, finds no card under any
\* of the card selectors, it ends in that step: nothing is appended,
\* failedUrls goes up by exactly one, the request is counted Failed, the
\* worker is free without passing through the pacing delay, and the request
\* does not go back to the queue.
C37_NoCardsFailsOnceWithoutRetry ==
    [][\A w \in Workers, titleThrows \in BOOLEAN :
          (pc[w] = "extract" /\ NoJobCards(w, titleThrows)) =>
              /\ allJobs' = allJobs
              /\ failedUrls' = failedUrls + 1
              /\ handled' = [handled EXCEPT !["Failed"] = @ + 1]
              /\ pc'[w] = "idle"
              /\ queue' = queue]_vars

C37_Witness ==
    /\ located.noCards
    /\ failedUrls = 1
    /\ handled["Failed"] = 1
    /\ handled["Done"] = 0
    /\ allJobs = <<>>
    /\ queue = <<>>
    /\ \A w \in Workers : pc[w] = "idle"

----------------------------------------------------------------------------
\* Properties of makeIndeedScraperRequestWithRetry, checked under SpecRetry

RateLimited(met) == met.kind = "response" /\ met.status = 429

\* C38: whatever the requests meet, at most maxRetries requests are issued;
\* a value is returned as soon as a request meets a response whose status is
\* not 429, and it is that response, never a 429; every other call throws
\* after maxRetries requests: the error of the transport when the last
\* request met one, 'Failed after maxRetries attempts' when the last request
\* was rate-limited.
C38_RetryReturnsFirstNon429OrThrows ==
    LET n == Len(reqMet)
    IN  /\ n <= maxRetries
        /\ \A k \in 1..(n - 1) : reqMet[k].kind = "error" \/ RateLimited(reqMet[k])
        /\ (n > 0 /\ reqMet[n].kind = "response" /\ ~RateLimited(reqMet[n])) =>
                (reqPc = "returned" /\ reqOutcome = reqMet[n])
        /\ reqPc = "returned" =>
                (n > 0 /\ reqOutcome = reqMet[n] /\ reqOutcome.kind = "response"
                    /\ reqOutcome.status # 429)
        /\ reqPc = "threw" =>
                /\ n = maxRetries
                /\ reqMet[n].kind = "error" => reqOutcome = reqMet[n]
                /\ RateLimited(reqMet[n]) => reqOutcome = FailedAfter(maxRetries)
        /\ (n = maxRetries /\ reqMet[n].kind = "error") => reqPc = "threw"
        /\ reqPc = "loop" => reqAttempt = n + 1

C38_Witness ==
    /\ reqPc = "threw"
    /\ Len(reqMet) = maxRetries
    /\ reqOutcome = FailedAfter(maxRetries)
    /\ reqMet[1].kind = "error"
    /\ RateLimited(reqMet[2])
    /\ RateLimited(reqMet[3])

----------------------------------------------------------------------------
\* Properties of the duplicate removal, checked under SpecDedup

\* the key of the claim: company and title lower-cased and trimmed, joined
\* by '|'
CompanyTitleKey(job) ==
    toLowerCase(trim(job.company)) \o <<"|">> \o toLowerCase(trim(job.title))

\* the jobs of a list that are the first of their key, in the list's order
FirstOfKey(jobs) ==
    LET first == {i \in 1..Len(jobs) :
                    \A j \in 1..(i - 1) : CompanyTitleKey(jobs[j]) # CompanyTitleKey(jobs[i])}
        RECURSIVE Pick(_)
        Pick(i) == IF i > Len(jobs) THEN <<>>
                   ELSE IF i \in first THEN <<jobs[i]>> \o Pick(i + 1)
                   ELSE Pick(i + 1)
    IN  Pick(1)

\* C39: the returned list has no two jobs with the same key; it is the list
\* of the first occurrences of every key, in collection order; the removed
\* duplicates and the returned jobs add up to the jobs collected; removing
\* duplicates from the returned list gives the same list and removes nothing.
C39_DeduplicationKeepsFirstOfEachKey ==
    ddPc = "returned" =>
        /\ \A i, j \in 1..Len(ddUniqueJobs) :
              i # j => CompanyTitleKey(ddUniqueJobs[i]) # CompanyTitleKey(ddUniqueJobs[j])
        /\ ddUniqueJobs = FirstOfKey(ddAllJobs)
        /\ ddDuplicateCount + Len(ddUniqueJobs) = Len(ddAllJobs)
        /\ RemoveDuplicates(ddUniqueJobs, 1, <<>>, {}, 0)
              = [uniqueJobs |-> ddUniqueJobs, duplicateCount |-> 0]

C39_Witness ==
    /\ ddPc = "returned"
    /\ Len(ddAllJobs) = 3
    /\ ddAllJobs[1].company = TextAcmePadded
    /\ ddAllJobs[2].company = TextMcD
    /\ ddAllJobs[3].company = TextAcmeLower
    /\ ddDuplicateCount = 1
    /\ Len(ddUniqueJobs) = 2

====
